---- MODULE Spec2Model ----
(***************************************************************************)
(* Model of the chuckOS file intelligence engine: the command-line engine  *)
(* JaymiFileIntelligence (src/jaymi_file_intelligence.py) and the web      *)
(* engine JaymiFileIntelligenceAPI (src/backend/core/file_intelligence.py).*)
(*                                                                         *)
(* Strings are TLA+ strings; paths are sequences of path components.       *)
(* Scores are exact rationals: a count of half points plus the fraction    *)
(* num/den of the preference confidence.                                   *)
(*                                                                         *)
(* engine is the engine object that was constructed, fs and dirs are the   *)
(* filesystem it runs on, file_memory is the memory of the command-line    *)
(* engine (its organization_preferences and smart_suggestions;             *)
(* search_history and file_patterns are written and never read by an       *)
(* operation below), out is what the last call returned together with the  *)
(* intermediate lists it built.  memory_file is the content of the file    *)
(* ~/.jaymi_file_memory.json, tasks are the search coroutines of the web   *)
(* engine that are in flight, learning is the position of a learning pass  *)
(* that is followed step by step.                                          *)
(***************************************************************************)
EXTENDS Integers, Sequences, FiniteSets, TLC

VARIABLES engine, fs, dirs, file_memory, out, memory_file, tasks, learning

vars == <<engine, fs, dirs, file_memory, out, memory_file, tasks, learning>>

(***************************************************************************)
(* Bounds of the model.                                                    *)
(***************************************************************************)
MaxFiles == 2

(***************************************************************************)
(* Python string operations.                                               *)
(***************************************************************************)
\* q in s
Contains(s, q) ==
    \E i \in 1..(Len(s) - Len(q) + 1) : SubSeq(s, i, i + Len(q) - 1) = q

UpperCase == <<"A","B","C","D","E","F","G","H","I","J","K","L","M",
               "N","O","P","Q","R","S","T","U","V","W","X","Y","Z">>
LowerCase == <<"a","b","c","d","e","f","g","h","i","j","k","l","m",
               "n","o","p","q","r","s","t","u","v","w","x","y","z">>

UpperSet == {UpperCase[i] : i \in 1..26}

LowerChar(c) ==
    IF c \in UpperSet
    THEN LowerCase[CHOOSE i \in 1..26 : UpperCase[i] = c]
    ELSE c

\* s.lower()
RECURSIVE Lower(_)
Lower(s) ==
    IF Len(s) = 0 THEN ""
    ELSE LowerChar(SubSeq(s, 1, 1)) \o Lower(SubSeq(s, 2, Len(s)))

\* s.split(): the maximal runs of non-blank characters, in order
RECURSIVE SplitFrom(_, _, _)
SplitFrom(s, i, word) ==
    IF i > Len(s)
    THEN IF word = "" THEN <<>> ELSE <<word>>
    ELSE IF SubSeq(s, i, i) = " "
         THEN (IF word = "" THEN <<>> ELSE <<word>>) \o SplitFrom(s, i + 1, "")
         ELSE SplitFrom(s, i + 1, word \o SubSeq(s, i, i))

Split(s) == SplitFrom(s, 1, "")

(***************************************************************************)
(* pathlib.  A Path is the sequence of its components; Path(p) drops the   *)
(* "." components and keeps "..", which only resolving removes.            *)
(***************************************************************************)
Home == <<"home", "u">>

PathOf(p) == SelectSeq(p, LAMBDA c : c # ".")

RECURSIVE Resolve(_, _)
Resolve(p, acc) ==
    IF p = <<>> THEN acc
    ELSE IF Head(p) = "."
         THEN Resolve(Tail(p), acc)
         ELSE IF Head(p) = ".."
              THEN Resolve(Tail(p), IF acc = <<>> THEN acc
                                    ELSE SubSeq(acc, 1, Len(acc) - 1))
              ELSE Resolve(Tail(p), Append(acc, Head(p)))

\* the canonical absolute path of p
Canonical(p) == Resolve(p, <<>>)

Name(p) == p[Len(p)]
Parent(p) == SubSeq(p, 1, Len(p) - 1)

\* str(path)
RECURSIVE Str(_)
Str(p) == IF p = <<>> THEN "" ELSE "/" \o Head(p) \o Str(Tail(p))

\* index of the last "." of a name, 0 when there is none
LastDot(name) ==
    IF \E i \in 1..Len(name) : SubSeq(name, i, i) = "."
    THEN CHOOSE i \in 1..Len(name) :
            /\ SubSeq(name, i, i) = "."
            /\ \A j \in (i + 1)..Len(name) : SubSeq(name, j, j) # "."
    ELSE 0

\* PurePath.suffix: the last dot-separated part, "" for a leading or
\* trailing dot
Suffix(name) ==
    LET i == LastDot(name)
    IN  IF i > 1 /\ i < Len(name) THEN SubSeq(name, i, Len(name)) ELSE ""

\* PurePath.stem
Stem(name) ==
    LET i == LastDot(name)
    IN  IF i > 1 /\ i < Len(name) THEN SubSeq(name, 1, i - 1) ELSE name

IsPrefix(p, q) == Len(p) <= Len(q) /\ SubSeq(q, 1, Len(p)) = p

(***************************************************************************)
(* File categories.                                                        *)
(***************************************************************************)
CategoryOrder ==
    <<"images", "documents", "spreadsheets", "presentations", "audio",
      "video", "archives", "code", "data">>

Categories == {CategoryOrder[i] : i \in 1..Len(CategoryOrder)} \cup {"other"}

file_categories ==
    [images        |-> {".jpg", ".jpeg", ".png", ".gif", ".bmp", ".tiff", ".webp", ".svg"},
     documents     |-> {".pdf", ".doc", ".docx", ".txt", ".md", ".rtf", ".odt"},
     spreadsheets  |-> {".xls", ".xlsx", ".csv", ".ods"},
     presentations |-> {".ppt", ".pptx", ".odp"},
     audio         |-> {".mp3", ".wav", ".flac", ".aac", ".ogg", ".m4a"},
     video         |-> {".mp4", ".avi", ".mkv", ".mov", ".wmv", ".flv", ".webm"},
     archives      |-> {".zip", ".rar", ".7z", ".tar", ".gz", ".bz2"},
     code          |-> {".py", ".js", ".html", ".css", ".cpp", ".java", ".php", ".rb"},
     data          |-> {".json", ".xml", ".yaml", ".sql", ".db", ".sqlite"}]

categorize_file(file_path) ==
    LET extension == Lower(Suffix(Name(file_path)))
        hits == {i \in 1..Len(CategoryOrder) :
                    extension \in file_categories[CategoryOrder[i]]}
    IN  IF hits = {} THEN "other"
        ELSE CategoryOrder[CHOOSE i \in hits : \A j \in hits : i <= j]

(***************************************************************************)
(* The filesystem.  fs is the set of regular files: canonical path, size   *)
(* in bytes, age of the modification time in whole days, text content and  *)
(* position in the listing order of the operating system.  dirs is the set *)
(* of directories.                                                         *)
(***************************************************************************)
MiB == 1024 * 1024

File(path, size, days_old, content, ord) ==
    [path |-> path, size |-> size, days_old |-> days_old,
     content |-> content, ord |-> ord]

FileUniverse ==
    { File(Home \o <<"Pictures", "a.jpg">>, 5000, 2, "", 1),
      File(Home \o <<"Pictures", "b.png">>, 0, 2, "", 2),
      File(Home \o <<"Downloads", "c.jpg">>, 3000, 40, "", 3),
      File(Home \o <<"Desktop", "report.pdf">>, 100 * 1024, 100, "", 4),
      File(Home \o <<"Documents", "Report.pdf.bak">>, 2000, 1, "", 5),
      File(Home \o <<"Videos", "movie.mp4">>, 15 * MiB, 60, "", 6),
      File(Home \o <<"Downloads", "large.txt">>, MiB, 60, "a large text", 7),
      File(Home \o <<"Documents", "sub", "notes.txt">>, 1024, 3, "a LARGE file", 8),
      File(Home \o <<"Downloads", "a.jpg">>, 10 * MiB, 2, "", 9) }

scan_dirs ==
    << Home \o <<"Documents">>, Home \o <<"Pictures">>, Home \o <<"Downloads">>,
       Home \o <<"Desktop">>, Home \o <<"Music">>, Home \o <<"Videos">> >>

ScanDirSet == {scan_dirs[i] : i \in 1..Len(scan_dirs)}

\* every directory above a file exists
RECURSIVE Ancestors(_)
Ancestors(p) ==
    IF Len(p) <= 1 THEN {} ELSE {Parent(p)} \cup Ancestors(Parent(p))

DirsOf(files) == UNION {Ancestors(f.path) : f \in files}

IsFileIn(files, p) == \E f \in files : f.path = Canonical(p)

\* Path.is_file(), Path.exists(), Path.stat()
is_file(p) == IsFileIn(fs, p)
exists(p) == Canonical(p) \in dirs \/ is_file(p)
stat(p) == CHOOSE f \in fs : f.path = Canonical(p)

RECURSIVE SetToSeq(_)
SetToSeq(S) ==
    IF S = {} THEN <<>>
    ELSE LET x == CHOOSE y \in S : TRUE IN <<x>> \o SetToSeq(S \ {x})

RECURSIVE ByOrd(_)
ByOrd(files) ==
    IF files = {} THEN <<>>
    ELSE LET f == CHOOSE g \in files : \A h \in files : g.ord <= h.ord
         IN  <<f>> \o ByOrd(files \ {f})

RelativeTo(p, base) == SubSeq(p, Len(base) + 1, Len(p))

\* directory.rglob("*"): every directory and file below the directory, as
\* paths spelled from the directory's own spelling
rglob(directory) ==
    LET base == Canonical(directory)
        below(p) == IsPrefix(base, p) /\ Len(p) > Len(base)
        subdirs == SetToSeq({d \in dirs : below(d)})
        files == ByOrd({f \in fs : below(f.path)})
    IN  [i \in 1..Len(subdirs) |-> directory \o RelativeTo(subdirs[i], base)]
        \o [i \in 1..Len(files) |-> directory \o RelativeTo(files[i].path, base)]

\* directory.iterdir(): the immediate children only
iterdir(directory) ==
    SelectSeq(rglob(directory), LAMBDA p : Len(p) = Len(directory) + 1)

RECURSIVE Flatten(_)
Flatten(seqs) == IF seqs = <<>> THEN <<>> ELSE Head(seqs) \o Flatten(Tail(seqs))

\* Scan giving up at the first search directory that does not exist
ScanStopAtMissing(search_dirs) ==
    Flatten([i \in 1..Len(search_dirs) |->
                IF \A j \in 1..i : exists(search_dirs[j])
                THEN rglob(search_dirs[i]) ELSE <<>>])

\* for search_dir in search_dirs: if search_dir.exists():
\*     for file_path in search_dir.rglob("*"): ...
\* the paths the loops of a strategy visit, in order
Scan(search_dirs) ==
    Flatten([i \in 1..Len(search_dirs) |->
                IF exists(search_dirs[i]) THEN rglob(search_dirs[i]) ELSE <<>>])

Range(s) == {s[i] : i \in 1..Len(s)}

(***************************************************************************)
(* The five search strategies.                                             *)
(***************************************************************************)
search_by_filename(query, search_dirs) ==
    SelectSeq(Scan(search_dirs),
        LAMBDA file_path :
            /\ is_file(file_path)
            /\ stat(file_path).size > 0
            /\ Contains(Lower(Name(file_path)), query))

text_extensions == {".txt", ".md", ".py", ".js", ".html", ".css", ".json"}

search_by_content_keywords(query, search_dirs) ==
    SelectSeq(Scan(search_dirs),
        LAMBDA file_path :
            /\ is_file(file_path)
            /\ Lower(Suffix(Name(file_path))) \in text_extensions
            /\ stat(file_path).size > 0
            /\ stat(file_path).size < 1024 * 1024
            /\ Contains(Lower(stat(file_path).content), query))

type_keywords ==
    << <<"photo", "images">>, <<"picture", "images">>, <<"image", "images">>,
       <<"document", "documents">>, <<"doc", "documents">>, <<"text", "documents">>,
       <<"music", "audio">>, <<"song", "audio">>, <<"audio", "audio">>,
       <<"video", "video">>, <<"movie", "video">>,
       <<"code", "code">>, <<"script", "code">>, <<"program", "code">> >>

\* target_category taking the last keyword that the query contains
target_category_last(query) ==
    LET hits == {i \in 1..Len(type_keywords) : Contains(query, type_keywords[i][1])}
    IN  IF hits = {} THEN ""
        ELSE type_keywords[CHOOSE i \in hits : \A j \in hits : j <= i][2]

\* the category of the first keyword, in dictionary order, that the query
\* contains; "" when there is none
target_category(query) ==
    LET hits == {i \in 1..Len(type_keywords) : Contains(query, type_keywords[i][1])}
    IN  IF hits = {} THEN ""
        ELSE type_keywords[CHOOSE i \in hits : \A j \in hits : i <= j][2]

search_by_file_type(query, search_dirs) ==
    IF target_category(query) = "" THEN <<>>
    ELSE SelectSeq(Scan(search_dirs),
            LAMBDA file_path :
                /\ is_file(file_path)
                /\ Lower(Suffix(Name(file_path))) \in file_categories[target_category(query)]
                /\ stat(file_path).size > 0)

AnyIn(words, query) == \E w \in words : Contains(query, w)

\* search_by_date_context testing the old keywords before the recent ones
search_by_date_context_old_first(query, search_dirs) ==
    IF AnyIn({"old", "archive", "backup"}, query)
    THEN SelectSeq(Scan(search_dirs),
            LAMBDA file_path :
                /\ is_file(file_path)
                /\ stat(file_path).size > 0
                /\ stat(file_path).days_old >= 90)
    ELSE IF AnyIn({"today", "recent", "new", "latest"}, query)
         THEN SelectSeq(Scan(search_dirs),
                LAMBDA file_path :
                    /\ is_file(file_path)
                    /\ stat(file_path).size > 0
                    /\ stat(file_path).days_old < 7)
         ELSE <<>>

search_by_date_context(query, search_dirs) ==
    IF AnyIn({"today", "recent", "new", "latest"}, query)
    THEN SelectSeq(Scan(search_dirs),
            LAMBDA file_path :
                /\ is_file(file_path)
                /\ stat(file_path).size > 0
                /\ stat(file_path).days_old < 7)
    ELSE IF AnyIn({"old", "archive", "backup"}, query)
         THEN SelectSeq(Scan(search_dirs),
                LAMBDA file_path :
                    /\ is_file(file_path)
                    /\ stat(file_path).size > 0
                    /\ stat(file_path).days_old >= 90)
         ELSE <<>>

\* search_by_size_context with the two thresholds included
search_by_size_context_inclusive(query, search_dirs) ==
    IF AnyIn({"large", "big", "huge"}, query)
    THEN SelectSeq(Scan(search_dirs),
            LAMBDA file_path :
                /\ is_file(file_path)
                /\ stat(file_path).size >= 10 * 1024 * 1024)
    ELSE IF AnyIn({"small", "tiny"}, query)
         THEN SelectSeq(Scan(search_dirs),
                LAMBDA file_path :
                    /\ is_file(file_path)
                    /\ 0 < stat(file_path).size
                    /\ stat(file_path).size <= 100 * 1024)
         ELSE <<>>

\* search_by_size_context whose small branch lost its lower bound
search_by_size_context_no_floor(query, search_dirs) ==
    IF AnyIn({"large", "big", "huge"}, query)
    THEN SelectSeq(Scan(search_dirs),
            LAMBDA file_path :
                /\ is_file(file_path)
                /\ stat(file_path).size > 10 * 1024 * 1024)
    ELSE IF AnyIn({"small", "tiny"}, query)
         THEN SelectSeq(Scan(search_dirs),
                LAMBDA file_path :
                    /\ is_file(file_path)
                    /\ stat(file_path).size < 100 * 1024)
         ELSE <<>>

search_by_size_context(query, search_dirs) ==
    IF AnyIn({"large", "big", "huge"}, query)
    THEN SelectSeq(Scan(search_dirs),
            LAMBDA file_path :
                /\ is_file(file_path)
                /\ stat(file_path).size > 10 * 1024 * 1024)
    ELSE IF AnyIn({"small", "tiny"}, query)
         THEN SelectSeq(Scan(search_dirs),
                LAMBDA file_path :
                    /\ is_file(file_path)
                    /\ 0 < stat(file_path).size
                    /\ stat(file_path).size < 100 * 1024)
         ELSE <<>>

\* the five strategies in the order smart_file_search runs them
RunStrategies(query, search_dirs) ==
    << search_by_filename(query, search_dirs),
       search_by_content_keywords(query, search_dirs),
       search_by_file_type(query, search_dirs),
       search_by_date_context(query, search_dirs),
       search_by_size_context(query, search_dirs) >>

\* "Remove duplicates while preserving order": keep the first occurrence
RECURSIVE RemoveDuplicates(_, _)
RemoveDuplicates(found_files, seen) ==
    IF found_files = <<>> THEN <<>>
    ELSE IF Head(found_files) \in seen
         THEN RemoveDuplicates(Tail(found_files), seen)
         ELSE <<Head(found_files)>>
              \o RemoveDuplicates(Tail(found_files), seen \cup {Head(found_files)})

(***************************************************************************)
(* Ranking.  A score is half/2 + num/den.                                  *)
(***************************************************************************)
Score(half, num, den) == [half |-> half, num |-> num, den |-> den]

\* the value of a score times 2 * den, for comparisons
Scaled(s, den) == s.half * den + 2 * s.num
ScoreGT(a, b) == Scaled(a, a.den) * b.den > Scaled(b, b.den) * a.den
ScoreEQ(a, b) == Scaled(a, a.den) * b.den = Scaled(b, b.den) * a.den
\* ScorePositive keeping the files that score nothing
ScoreNotNegative(a) == Scaled(a, a.den) >= 0

ScorePositive(a) == Scaled(a, a.den) > 0

\* MatchPoints with its two tests in the other order: the exact name is
\* caught by the substring test and scores 5.0
MatchPointsSubstringFirst(query, filename_lower) ==
    IF Contains(filename_lower, query) THEN 10
    ELSE IF query = filename_lower THEN 20
    ELSE 0

\* +10.0 for the exact name, else +5.0 when the name contains the query
MatchPoints(query, filename_lower) ==
    IF query = filename_lower THEN 20
    ELSE IF Contains(filename_lower, query) THEN 10
    ELSE 0

\* +2.0 for each query word in the name
WordPoints(query, filename_lower) ==
    LET query_words == Split(query)
    IN  4 * Cardinality({i \in 1..Len(query_words) :
                            Contains(filename_lower, query_words[i])})

\* RecencyPoints giving a file of the last week both bonuses
RecencyPointsStacked(days_old) ==
    (IF days_old < 7 THEN 2 ELSE 0) + (IF days_old < 30 THEN 1 ELSE 0)

\* +1.0 under 7 days old, else +0.5 under 30 days
RecencyPoints(days_old) ==
    IF days_old < 7 THEN 2
    ELSE IF days_old < 30 THEN 1
    ELSE 0

\* PreferencePoints adding a whole point instead of the confidence
PreferencePointsWhole(file_path, preferences) ==
    LET category == categorize_file(file_path)
    IN  IF /\ category \in DOMAIN preferences
           /\ Contains(Str(Parent(file_path)), preferences[category].preferred_location)
        THEN [num |-> 1, den |-> 1]
        ELSE [num |-> 0, den |-> 1]

\* the bonus of a file lying in the preferred location of its category
PreferencePoints(file_path, preferences) ==
    LET category == categorize_file(file_path)
    IN  IF category \in DOMAIN preferences
        THEN LET pref == preferences[category]
             IN  IF Contains(Str(Parent(file_path)), pref.preferred_location)
                 THEN pref.confidence
                 ELSE [num |-> 0, den |-> 1]
        ELSE [num |-> 0, den |-> 1]

ScoreOf(file_path, query, preferences) ==
    LET filename_lower == Lower(Name(file_path))
        bonus == PreferencePoints(file_path, preferences)
    IN  Score(MatchPoints(query, filename_lower)
                + WordPoints(query, filename_lower)
                + RecencyPoints(stat(file_path).days_old),
              bonus.num, bonus.den)

\* InsertByScore placing an entry before the entries of equal score
RECURSIVE InsertBeforeEqualScore(_, _)
InsertBeforeEqualScore(sorted, e) ==
    IF sorted = <<>> THEN <<e>>
    ELSE IF ScoreGT(e.score, Head(sorted).score) \/ ScoreEQ(e.score, Head(sorted).score)
         THEN <<e>> \o sorted
         ELSE <<Head(sorted)>> \o InsertBeforeEqualScore(Tail(sorted), e)

\* sorted(scored_files, key=score, reverse=True): descending and stable
RECURSIVE InsertByScore(_, _)
InsertByScore(sorted, e) ==
    IF sorted = <<>> THEN <<e>>
    ELSE IF ScoreGT(e.score, Head(sorted).score)
         THEN <<e>> \o sorted
         ELSE <<Head(sorted)>> \o InsertByScore(Tail(sorted), e)

RECURSIVE SortedByScore(_)
SortedByScore(scored_files) ==
    IF scored_files = <<>> THEN <<>>
    ELSE InsertByScore(SortedByScore(SubSeq(scored_files, 1, Len(scored_files) - 1)),
                       scored_files[Len(scored_files)])

\* RankWith giving a bonus point to the file that was found first
RankWithDiscoveryBonus(files, query, preferences) ==
    LET scored == [i \in 1..Len(files) |->
                      [file |-> files[i],
                       score |-> LET sc == ScoreOf(files[i], query, preferences)
                                 IN  Score(sc.half + (IF i = 1 THEN 2 ELSE 0),
                                           sc.num, sc.den)]]
    IN  SortedByScore(SelectSeq(scored, LAMBDA e : ScorePositive(e.score)))

RankWith(files, query, preferences) ==
    LET scored == [i \in 1..Len(files) |->
                      [file |-> files[i],
                       score |-> ScoreOf(files[i], query, preferences)]]
    IN  SortedByScore(SelectSeq(scored, LAMBDA e : ScorePositive(e.score)))

NoPreferences == [c \in {} |-> [num |-> 0, den |-> 1]]

\* the command-line ranker reads the learned preferences
rank_search_results(files, query) ==
    RankWith(files, query, file_memory.organization_preferences)

\* the web ranker has no preference table
api_rank_search_results(files, query) ==
    RankWith(files, query, NoPreferences)

(***************************************************************************)
(* Analysis and learning.                                                  *)
(***************************************************************************)
\* Observed without the skip of empty files
ObservedWithEmpty(directories) ==
    Flatten([i \in 1..Len(directories) |->
        IF exists(directories[i])
        THEN LET files == SelectSeq(rglob(directories[i]), is_file)
             IN  [j \in 1..Len(files) |->
                    [file |-> files[j], location |-> Name(directories[i])]]
        ELSE <<>>])

\* the (file, scan directory name) pairs the analysis loop accumulates:
\* regular files of the existing scan directories; empty files are skipped
Observed(directories) ==
    Flatten([i \in 1..Len(directories) |->
        IF exists(directories[i])
        THEN LET files == SelectSeq(rglob(directories[i]),
                              LAMBDA file_path :
                                  is_file(file_path) /\ stat(file_path).size # 0)
             IN  [j \in 1..Len(files) |->
                    [file |-> files[j], location |-> Name(directories[i])]]
        ELSE <<>>])

RECURSIVE SumSizes(_)
SumSizes(observed) ==
    IF observed = <<>> THEN 0
    ELSE stat(Head(observed).file).size + SumSizes(Tail(observed))

OfCategory(observed, category) ==
    SelectSeq(observed, LAMBDA o : categorize_file(o.file) = category)

SeenCategories(observed) ==
    {categorize_file(observed[i].file) : i \in 1..Len(observed)}

\* file_stats and size_stats: one key per category met
FileStats(observed) ==
    [c \in SeenCategories(observed) |-> Len(OfCategory(observed, c))]

SizeStats(observed) ==
    [c \in SeenCategories(observed) |-> SumSizes(OfCategory(observed, c))]

\* round(size / (1024*1024), 2), in hundredths of a MiB: the whole MiB and
\* the rounded hundredths of the rest, ties to the even hundredth
RoundMB(size) ==
    LET whole == size \div (1024 * 1024)
        rest == size % (1024 * 1024)
        q == (rest * 100) \div (1024 * 1024)
        r == (rest * 100) % (1024 * 1024)
    IN  whole * 100
        + (IF 2 * r > 1024 * 1024 THEN q + 1
           ELSE IF 2 * r = 1024 * 1024 THEN q + (q % 2)
           ELSE q)

Count(seq, x) == Cardinality({i \in 1..Len(seq) : seq[i] = x})

\* Counter(locations).most_common(1)[0]: the most frequent value, the one
\* met first among equally frequent ones
most_common(locations) ==
    LET best == CHOOSE i \in 1..Len(locations) :
                    /\ \A j \in 1..Len(locations) :
                          Count(locations, locations[j]) <= Count(locations, locations[i])
                    /\ \A j \in 1..(i - 1) :
                          Count(locations, locations[j]) < Count(locations, locations[i])
    IN  <<locations[best], Count(locations, locations[best])>>

\* Preference dividing by the number of distinct locations
PreferenceOverDistinct(locations) ==
    LET most_common_location == most_common(locations)
    IN  [preferred_location |-> most_common_location[1],
         confidence |-> [num |-> most_common_location[2],
                         den |-> Cardinality({locations[i] : i \in 1..Len(locations)})]]

Preference(locations) ==
    LET most_common_location == most_common(locations)
    IN  [preferred_location |-> most_common_location[1],
         confidence |-> [num |-> most_common_location[2], den |-> Len(locations)]]

\* location_patterns[category] holding the name of each file's own directory
LocationsOfParent(observed, category) ==
    LET obs == OfCategory(observed, category)
    IN  [i \in 1..Len(obs) |-> Name(Parent(obs[i].file))]

\* location_patterns[category]
LocationsOf(observed, category) ==
    LET obs == OfCategory(observed, category)
    IN  [i \in 1..Len(obs) |-> obs[i].location]

\* learn_organization_patterns starting from an empty table
learn_organization_patterns_reset(observed, preferences) ==
    [c \in SeenCategories(observed) |-> Preference(LocationsOf(observed, c))]

\* the preference table after learning from the observed files: a record
\* for every category met, the other records kept
learn_organization_patterns(observed, preferences) ==
    [c \in DOMAIN preferences \cup SeenCategories(observed) |->
        IF c \in SeenCategories(observed)
        THEN Preference(LocationsOf(observed, c))
        ELSE preferences[c]]

\* a dict is the sequence of its (key, value) items, in insertion order;
\* file_stats and size_stats get a key when a category is first met
CategoriesMet(observed) ==
    RemoveDuplicates([i \in 1..Len(observed) |-> categorize_file(observed[i].file)], {})

FileStatsItems(observed) ==
    LET met == CategoriesMet(observed)
    IN  [i \in 1..Len(met) |-> <<met[i], FileStats(observed)[met[i]]>>]

SizeStatsItems(observed) ==
    LET met == CategoriesMet(observed)
    IN  [i \in 1..Len(met) |-> <<met[i], SizeStats(observed)[met[i]]>>]

\* sum(d.values())
RECURSIVE SumValues(_)
SumValues(items) ==
    IF items = <<>> THEN 0 ELSE Head(items)[2] + SumValues(Tail(items))

\* d.get(key, 0)
Get(items, key) ==
    IF \E i \in 1..Len(items) : items[i][1] = key
    THEN items[CHOOSE i \in 1..Len(items) : items[i][1] = key][2]
    ELSE 0

\* max(d.items(), key=lambda x: x[1]): the first of the largest items
MaxItem(items) ==
    items[CHOOSE i \in 1..Len(items) :
             /\ \A j \in 1..Len(items) : items[j][2] <= items[i][2]
             /\ \A j \in 1..(i - 1) : items[j][2] < items[i][2]]

\* the suggestions, each with the values its message quotes;
\* total_size_mb = sum / (1024*1024) exceeds 1000 exactly when the sum of
\* the bytes exceeds 1000 * 1024 * 1024
generate_smart_suggestions(file_stats, size_stats) ==
    (IF SumValues(size_stats) > 1000 * MiB
     THEN << [type |-> "storage_optimization", priority |-> "medium",
              category |-> MaxItem(size_stats)[1], size |-> MaxItem(size_stats)[2]] >>
     ELSE <<>>)
    \o (IF Get(file_stats, "other") > 20
        THEN << [type |-> "organization", priority |-> "high",
                 count |-> Get(file_stats, "other")] >>
        ELSE <<>>)
    \o (IF Get(file_stats, "archives") > 5
        THEN << [type |-> "cleanup", priority |-> "low",
                 count |-> Get(file_stats, "archives")] >>
        ELSE <<>>)

Suggestions(observed) ==
    generate_smart_suggestions(FileStatsItems(observed), SizeStatsItems(observed))

\* AnalysisResult whose counters are not reset between two analyses
AnalysisResultAccumulated(observed) ==
    LET carried == out.op = "analyze_file_system"
    IN  [total_files |-> Len(observed) + (IF carried THEN out.res.total_files ELSE 0),
         total_size |-> SumSizes(observed) + (IF carried THEN out.res.total_size ELSE 0),
         categories |-> FileStats(observed),
         suggestions |-> Suggestions(observed)]

AnalysisResult(observed) ==
    [total_files |-> Len(observed),
     total_size |-> SumSizes(observed),
     categories |-> FileStats(observed),
     suggestions |-> Suggestions(observed)]

ApiAnalysisResult(observed) ==
    [total_files |-> Len(observed),
     total_size |-> SumSizes(observed),
     total_size_mb |-> RoundMB(SumSizes(observed)),
     categories |-> FileStats(observed),
     category_sizes |-> [c \in SeenCategories(observed) |->
                            RoundMB(SizeStats(observed)[c])]]

\* analyze_system returns the directory analysis and the suggestions
ApiSystemResult(observed) ==
    LET res == ApiAnalysisResult(observed)
    IN  [k \in DOMAIN res \cup {"suggestions"} |->
            IF k = "suggestions" THEN Suggestions(observed) ELSE res[k]]

(***************************************************************************)
(* Organizing.                                                             *)
(***************************************************************************)
location_mapping ==
    [Documents |-> Home \o <<"Documents">>,
     Pictures  |-> Home \o <<"Pictures">>,
     Music     |-> Home \o <<"Music">>,
     Videos    |-> Home \o <<"Videos">>]

\* files_to_organize: the non-empty regular files directly in the directory
FilesToOrganize(directory) ==
    SelectSeq(iterdir(directory),
        LAMBDA file_path : is_file(file_path) /\ stat(file_path).size > 0)

\* FreeTarget without the conflict loop: the target is the plain name
FreeTargetPlain(files, directories, target_dir, file_name, target_path, counter) ==
    target_path

\* "Handle naming conflicts": the first of name, stem_1.suffix,
\* stem_2.suffix, ... that does not exist in the target directory
RECURSIVE FreeTarget(_, _, _, _, _, _)
FreeTarget(files, directories, target_dir, file_name, target_path, counter) ==
    IF target_path \in directories \/ IsFileIn(files, target_path)
    THEN FreeTarget(files, directories, target_dir, file_name,
                    target_dir \o <<Stem(file_name) \o "_" \o ToString(counter)
                                      \o Suffix(file_name)>>,
                    counter + 1)
    ELSE target_path

MaxOrd(files) == IF files = {} THEN 0
                 ELSE (CHOOSE f \in files : \A g \in files : g.ord <= f.ord).ord

\* shutil.move(file_path, target_path)
Moved(files, file_path, target_path) ==
    LET f == CHOOSE g \in files : g.path = Canonical(file_path)
    IN  (files \ {f}) \cup {[f EXCEPT !.path = target_path, !.ord = MaxOrd(files) + 1]}

\* the file's category has a preference for a directory of location_mapping
HasTarget(file_path, preferences) ==
    /\ categorize_file(file_path) \in DOMAIN preferences
    /\ preferences[categorize_file(file_path)].preferred_location
          \in DOMAIN location_mapping

\* one turn of the organizing loop over st = [files, dirs, moves, failed];
\* shutil.move raises for the files named in unmovable, which the except
\* clause reports with "Couldn't move" before the loop goes on
OrganizeOne(st, file_path, preferences, unmovable) ==
    LET category == categorize_file(file_path)
    IN  IF HasTarget(file_path, preferences)
        THEN LET target_dir == location_mapping[preferences[category].preferred_location]
                 made == st.dirs \cup {target_dir}
                 target_path == FreeTarget(st.files, made, target_dir, Name(file_path),
                                           target_dir \o <<Name(file_path)>>, 1)
             IN  IF Name(file_path) \in unmovable
                 THEN [st EXCEPT !.dirs = made,
                                 !.failed = Append(@, file_path)]
                 ELSE [st EXCEPT !.files = Moved(st.files, file_path, target_path),
                                 !.dirs = made,
                                 !.moves = Append(@, [file |-> file_path,
                                                      to |-> target_path,
                                                      category |-> category])]
        ELSE st

\* the organizing loop given up at the first move that fails
RECURSIVE OrganizeAllAbortOnFailure(_, _, _, _)
OrganizeAllAbortOnFailure(st, files_to_organize, preferences, unmovable) ==
    IF files_to_organize = <<>> \/ st.failed # <<>> THEN st
    ELSE OrganizeAllAbortOnFailure(
            OrganizeOne(st, Head(files_to_organize), preferences, unmovable),
            Tail(files_to_organize), preferences, unmovable)

RECURSIVE OrganizeAll(_, _, _, _)
OrganizeAll(st, files_to_organize, preferences, unmovable) ==
    IF files_to_organize = <<>> THEN st
    ELSE OrganizeAll(OrganizeOne(st, Head(files_to_organize), preferences, unmovable),
                     Tail(files_to_organize), preferences, unmovable)

\* the web engine's fixed table; <<>> stands for None
get_target_directory(category) ==
    IF category = "images" THEN Home \o <<"Pictures">>
    ELSE IF category = "documents" THEN Home \o <<"Documents">>
    ELSE IF category = "audio" THEN Home \o <<"Music">>
    ELSE IF category = "video" THEN Home \o <<"Videos">>
    ELSE <<>>

PlanEntries(files_to_organize) ==
    LET wanted == SelectSeq(files_to_organize,
                     LAMBDA file_path :
                        LET target_dir == get_target_directory(categorize_file(file_path))
                        IN  target_dir # <<>> /\ target_dir # Parent(file_path))
    IN  [i \in 1..Len(wanted) |->
            [file |-> Name(wanted[i]),
             from |-> Str(Parent(wanted[i])),
             to |-> Str(get_target_directory(categorize_file(wanted[i]))),
             category |-> categorize_file(wanted[i]),
             action |-> "move"]]

(***************************************************************************)
(* Inputs.                                                                 *)
(***************************************************************************)
Queries ==
    {"Report.pdf", "large", "photo", "new small", "old big",
     "movie photo", "old new tiny big"}

\* the file_paths of a search request; <<>> asks for the default directories
RootLists ==
    { <<>>,
      << Home, Home \o <<"Downloads">> >>,
      << Home \o <<"Downloads">>, Home \o <<"Downloads", ".">> >>,
      << Home \o <<"Downloads">>, Home \o <<"Pictures", "..", "Downloads">> >>,
      << Home \o <<"Nowhere">>, Home \o <<"Downloads">> >> }

\* the path of an analyze or organize request; <<>> stands for None
RequestPaths ==
    { <<>>, Home \o <<"Downloads">>, Home \o <<"Pictures">>,
      Home \o <<"Downloads", "..", "Pictures">>, Home \o <<"Nowhere">> }

\* one file more than a web search returns: notes of yesterday, 200 KiB each
\* but the last, which is small
ManyNames ==
    << "n01.txt", "n02.txt", "n03.txt", "n04.txt", "n05.txt",
       "n06.txt", "n07.txt", "n08.txt", "n09.txt", "n10.txt",
       "n11.txt", "n12.txt", "n13.txt", "n14.txt", "n15.txt",
       "n16.txt", "n17.txt", "n18.txt", "n19.txt", "n20.txt", "n21.txt" >>

ManyFiles ==
    {File(Home \o <<"Documents", ManyNames[i]>>,
          IF i < Len(ManyNames) THEN 200 * 1024 ELSE 1000, 1, "", 10 + i) :
        i \in 1..Len(ManyNames)}

\* the filesystems of the end-to-end scenarios that need more files
ScenarioFilesystems ==
    { {f \in FileUniverse :
          f.path \in {Home \o <<"Pictures", "a.jpg">>, Home \o <<"Pictures", "b.png">>,
                      Home \o <<"Downloads", "c.jpg">>}},
      {f \in FileUniverse :
          f.path \in {Home \o <<"Pictures", "a.jpg">>, Home \o <<"Downloads", "c.jpg">>,
                      Home \o <<"Downloads", "a.jpg">>, Home \o <<"Videos", "movie.mp4">>}},
      \* a.jpg and a_1.jpg are both taken in Pictures
      {f \in FileUniverse :
          f.path \in {Home \o <<"Pictures", "a.jpg">>, Home \o <<"Downloads", "a.jpg">>}}
        \cup {File(Home \o <<"Pictures", "a_1.jpg">>, 4000, 2, "", 10)},
      ManyFiles }

\* a preference table saved by an earlier session: four of five images
\* were in Pictures
SavedPreferences ==
    [c \in {"images"} |->
        [preferred_location |-> "Pictures", confidence |-> [num |-> 4, den |-> 5]]]

\* no search coroutine is in flight: every handler below runs to its end
NoTasks == <<>>

\* no learning pass is under way
NoLearning == [pc |-> "idle"]

(***************************************************************************)
(* Initial state: the engine is constructed over some filesystem, its      *)
(* memory file absent or saved by an earlier session.                      *)
(***************************************************************************)
Init ==
    /\ engine \in {"JaymiFileIntelligence", "JaymiFileIntelligenceAPI"}
    /\ fs \in {files \in SUBSET FileUniverse : Cardinality(files) <= MaxFiles}
             \cup ScenarioFilesystems
    /\ \E extra \in (IF engine = "JaymiFileIntelligence"
                      THEN {{}, ScanDirSet} ELSE {ScanDirSet}) :
          dirs = {<<"home">>, Home} \cup DirsOf(fs) \cup extra
    /\ file_memory \in
          IF engine = "JaymiFileIntelligence"
          THEN {[organization_preferences |-> NoPreferences,
                 smart_suggestions |-> <<>>],
                [organization_preferences |-> SavedPreferences,
                 smart_suggestions |-> <<>>]}
          ELSE {[organization_preferences |-> NoPreferences,
                 smart_suggestions |-> <<>>]}
    /\ out = [op |-> "init"]
    /\ memory_file = file_memory
    /\ tasks = NoTasks
    /\ learning = NoLearning

(***************************************************************************)
(* Operations of the command-line engine.                                  *)
(***************************************************************************)
\* the result of the call before, when it was this same analysis
Previous(call) ==
    IF out.op = call[1] /\ out.call = call /\ out.error = ""
    THEN <<out.res>> ELSE <<>>

analyze_file_system ==
    LET observed == Observed(scan_dirs)
        res == AnalysisResult(observed)
    IN  /\ engine = "JaymiFileIntelligence"
        /\ file_memory' =
              [file_memory EXCEPT !.organization_preferences =
                                      learn_organization_patterns(observed, @),
                                  !.smart_suggestions = res.suggestions]
        \* save_file_memory() at the end of the learning and of the suggestions
        /\ memory_file' = file_memory'
        /\ out' = [op |-> "analyze_file_system",
                   call |-> <<"analyze_file_system">>, error |-> "",
                   res |-> res, prev |-> Previous(<<"analyze_file_system">>)]
        /\ UNCHANGED <<engine, fs, dirs, tasks, learning>>

\* the paths whose stat() may raise OSError during a call although
\* is_file() answered True: a file deleted in between; <<>> is no fault
Faults == {<<>>} \cup {f.path : f \in FileUniverse}

\* a strategy stats every regular file that its loops visit, outside any
\* try: the error of the failing path leaves the strategy and the search;
\* a path that no loop visits is not stat-ed and cannot fail
Raises(search_dirs, failing) ==
    /\ \E f \in fs : f.path = failing
    /\ \E k \in 1..Len(search_dirs) :
          /\ exists(search_dirs[k])
          /\ IsPrefix(Canonical(search_dirs[k]), failing)
          /\ Len(failing) > Len(Canonical(search_dirs[k]))

smart_file_search(query, failing) ==
    LET query_lower == Lower(query)
    IN  /\ engine = "JaymiFileIntelligence"
        /\ failing # <<>> => Raises(scan_dirs, failing)
        /\ IF failing # <<>>
           THEN out' = [op |-> "smart_file_search", error |-> "OSError",
                        failing |-> failing]
           ELSE \E strategy_results \in {RunStrategies(query_lower, scan_dirs)} :
                \E unique_files \in {RemoveDuplicates(Flatten(strategy_results), {})} :
                   out' = [op |-> "smart_file_search", error |-> "",
                           query |-> query_lower,
                           search_dirs |-> scan_dirs,
                           strategy_results |-> strategy_results,
                           unique_files |-> unique_files,
                           ranked |-> rank_search_results(unique_files, query_lower)]
        /\ UNCHANGED <<engine, fs, dirs, file_memory, memory_file, tasks, learning>>

\* the sets of file names whose move may fail during one call
MoveFaults == {{}} \cup {{Name(f.path)} : f \in FileUniverse}

auto_organize_files(unmovable) ==
    LET downloads_dir == Home \o <<"Downloads">>
        files_to_organize == IF exists(downloads_dir)
                             THEN FilesToOrganize(downloads_dir) ELSE <<>>
    IN  /\ engine = "JaymiFileIntelligence"
        \* a move that is never attempted cannot fail
        /\ \A name \in unmovable :
              \E i \in 1..Len(files_to_organize) :
                  /\ Name(files_to_organize[i]) = name
                  /\ HasTarget(files_to_organize[i],
                               file_memory.organization_preferences)
        /\ IF files_to_organize = <<>>
           THEN \* the early returns: nothing is organized, None is returned
                /\ out' = [op |-> "auto_organize_files", moves |-> <<>>,
                           failed |-> <<>>, files_to_organize |-> <<>>,
                           organized_count |-> -1]
                /\ UNCHANGED <<engine, fs, dirs, file_memory, memory_file, tasks, learning>>
           ELSE LET done == OrganizeAll([files |-> fs, dirs |-> dirs,
                                         moves |-> <<>>, failed |-> <<>>],
                                        files_to_organize,
                                        file_memory.organization_preferences,
                                        unmovable)
                IN  /\ fs' = done.files
                    /\ dirs' = done.dirs
                    /\ out' = [op |-> "auto_organize_files", moves |-> done.moves,
                               failed |-> done.failed,
                               files_to_organize |-> files_to_organize,
                               organized_count |-> Len(done.moves)]
                    /\ UNCHANGED <<engine, file_memory, memory_file, tasks, learning>>

(***************************************************************************)
(* Operations of the web engine.                                           *)
(***************************************************************************)
\* "Remove duplicates": keep the first file of every str(file)
RECURSIVE RemoveDuplicatesByStr(_, _)
RemoveDuplicatesByStr(found_files, seen) ==
    IF found_files = <<>> THEN <<>>
    ELSE IF Str(Head(found_files)) \in seen
         THEN RemoveDuplicatesByStr(Tail(found_files), seen)
         ELSE <<Head(found_files)>>
              \o RemoveDuplicatesByStr(Tail(found_files),
                                       seen \cup {Str(Head(found_files))})

FirstN(seq, n) == SubSeq(seq, 1, IF Len(seq) < n THEN Len(seq) ELSE n)

\* for file_path, score in ranked_files[:20]
ResultLimit == 20

smart_search(query, file_paths, failing) ==
    LET query_lower == Lower(query)
        search_dirs == IF file_paths = <<>> THEN scan_dirs
                       ELSE [i \in 1..Len(file_paths) |-> PathOf(file_paths[i])]
    IN  /\ engine = "JaymiFileIntelligenceAPI"
        /\ failing # <<>> => Raises(search_dirs, failing)
        /\ IF failing # <<>>
           THEN out' = [op |-> "smart_search", error |-> "OSError",
                        failing |-> failing]
           ELSE \E strategy_results \in {RunStrategies(query_lower, search_dirs)} :
                \E unique_files \in
                      {RemoveDuplicatesByStr(Flatten(strategy_results), {})} :
                   out' = [op |-> "smart_search", error |-> "",
                           query |-> query_lower,
                           search_dirs |-> search_dirs,
                           strategy_results |-> strategy_results,
                           unique_files |-> unique_files,
                           ranked |-> FirstN(api_rank_search_results(unique_files,
                                                                     query_lower), ResultLimit)]
        /\ UNCHANGED <<engine, fs, dirs, file_memory, memory_file, tasks, learning>>

analyze_system ==
    LET res == ApiSystemResult(Observed(scan_dirs))
    IN  /\ engine = "JaymiFileIntelligenceAPI"
        /\ out' = [op |-> "analyze_system", call |-> <<"analyze_system">>,
                   error |-> "", res |-> res,
                   prev |-> Previous(<<"analyze_system">>)]
        /\ UNCHANGED <<engine, fs, dirs, file_memory, memory_file, tasks, learning>>

\* analyze_file: the analysis of one file
analyze_file(path) ==
    [filename |-> Name(path),
     size |-> stat(path).size,
     size_mb |-> RoundMB(stat(path).size),
     category |-> categorize_file(path),
     extension |-> Lower(Suffix(Name(path)))]

analyze_path(path) ==
    LET target_path == PathOf(path)
        call == <<"analyze_path", path>>
        res == IF is_file(target_path) THEN analyze_file(target_path)
               ELSE ApiAnalysisResult(Observed(<<target_path>>))
    IN  /\ engine = "JaymiFileIntelligenceAPI"
        /\ out' = IF ~exists(target_path)
                  THEN [op |-> "analyze_path", call |-> call, error |-> "ValueError"]
                  ELSE [op |-> "analyze_path", call |-> call, error |-> "",
                        res |-> res, prev |-> Previous(call)]
        /\ UNCHANGED <<engine, fs, dirs, file_memory, memory_file, tasks, learning>>

\* auto_organize with the moves carried out where the code has "pass"
RECURSIVE ExecutePlan(_, _)
ExecutePlan(files, files_to_organize) ==
    IF files_to_organize = <<>> THEN files
    ELSE LET file_path == Head(files_to_organize)
             target_dir == get_target_directory(categorize_file(file_path))
         IN  ExecutePlan(
                IF target_dir # <<>> /\ target_dir # Parent(file_path)
                THEN Moved(files, file_path,
                           FreeTarget(files, dirs, target_dir, Name(file_path),
                                      target_dir \o <<Name(file_path)>>, 1))
                ELSE files,
                Tail(files_to_organize))

auto_organize_executing(path, dry_run) ==
    LET target_path == IF path # <<>> THEN PathOf(path) ELSE Home \o <<"Downloads">>
    IN  /\ engine = "JaymiFileIntelligenceAPI"
        /\ out' = IF ~exists(target_path)
                  THEN [op |-> "auto_organize", path |-> path, dry_run |-> dry_run,
                        error |-> "ValueError"]
                  ELSE [op |-> "auto_organize", path |-> path, dry_run |-> dry_run,
                        error |-> "",
                        files_analyzed |-> Len(FilesToOrganize(target_path)),
                        organization_plan |-> PlanEntries(FilesToOrganize(target_path))]
        /\ fs' = IF exists(target_path) /\ ~dry_run
                 THEN ExecutePlan(fs, FilesToOrganize(target_path))
                 ELSE fs
        /\ UNCHANGED <<engine, dirs, file_memory, memory_file, tasks, learning>>

auto_organize(path, dry_run) ==
    LET target_path == IF path # <<>> THEN PathOf(path) ELSE Home \o <<"Downloads">>
    IN  /\ engine = "JaymiFileIntelligenceAPI"
        /\ out' = IF ~exists(target_path)
                  THEN [op |-> "auto_organize", path |-> path, dry_run |-> dry_run,
                        error |-> "ValueError"]
                  ELSE [op |-> "auto_organize", path |-> path, dry_run |-> dry_run,
                        error |-> "",
                        files_analyzed |-> Len(FilesToOrganize(target_path)),
                        organization_plan |-> PlanEntries(FilesToOrganize(target_path))]
        /\ UNCHANGED <<engine, fs, dirs, file_memory, memory_file, tasks, learning>>

(***************************************************************************)
(* The system.                                                             *)
(***************************************************************************)
Next ==
    \/ analyze_file_system
    \/ \E query \in Queries, failing \in Faults : smart_file_search(query, failing)
    \/ \E unmovable \in MoveFaults : auto_organize_files(unmovable)
    \/ \E query \in Queries, file_paths \in RootLists, failing \in Faults :
          smart_search(query, file_paths, failing)
    \/ analyze_system
    \/ \E path \in RequestPaths \ {<<>>} : analyze_path(path)
    \/ \E path \in RequestPaths, dry_run \in BOOLEAN : auto_organize(path, dry_run)

Spec == Init /\ [][Next]_vars

(***************************************************************************)
(* The suggestion generator on its own: the statistics of an analysis are  *)
(* drawn at the start and the generator is applied to them.                *)
(***************************************************************************)
GiB == 1024 * MiB

\* the categories met by an analysis, in the order they were met
StatsOrders ==
    { <<>>, <<"images">>, <<"other", "archives">>,
      <<"images", "other", "archives">>, <<"archives", "images", "other">> }

StatsCounts == {5, 6, 20, 21}
StatsSizes == {1, 500 * MiB, 512 * MiB, 512 * MiB + 1}

StatsInputs ==
    UNION { { [file_stats |-> [i \in 1..Len(order) |-> <<order[i], counts[i]>>],
               size_stats |-> [i \in 1..Len(order) |-> <<order[i], sizes[i]>>]] :
                 counts \in [1..Len(order) -> StatsCounts],
                 sizes \in [1..Len(order) -> StatsSizes] } :
            order \in StatsOrders }

SuggestionsInit ==
    /\ engine \in {"JaymiFileIntelligence", "JaymiFileIntelligenceAPI"}
    /\ fs = {}
    /\ dirs = {<<"home">>, Home}
    /\ file_memory = [organization_preferences |-> NoPreferences,
                      smart_suggestions |-> <<>>]
    /\ \E stats \in StatsInputs :
          out = [op |-> "stats", file_stats |-> stats.file_stats,
                 size_stats |-> stats.size_stats]
    /\ memory_file = file_memory
    /\ tasks = NoTasks
    /\ learning = NoLearning

\* the command-line generator stores the suggestions in the memory
store_smart_suggestions ==
    /\ engine = "JaymiFileIntelligence"
    /\ out.op = "stats"
    /\ \E suggestions \in {generate_smart_suggestions(out.file_stats, out.size_stats)} :
          /\ file_memory' = [file_memory EXCEPT !.smart_suggestions = suggestions]
          /\ memory_file' = file_memory'
          /\ out' = [op |-> "generate_smart_suggestions",
                     file_stats |-> out.file_stats, size_stats |-> out.size_stats,
                     suggestions |-> suggestions]
    /\ UNCHANGED <<engine, fs, dirs, tasks, learning>>

\* the web generator only returns them
api_generate_suggestions ==
    /\ engine = "JaymiFileIntelligenceAPI"
    /\ out.op = "stats"
    /\ out' = [op |-> "_generate_suggestions",
               file_stats |-> out.file_stats, size_stats |-> out.size_stats,
               suggestions |-> generate_smart_suggestions(out.file_stats,
                                                          out.size_stats)]
    /\ UNCHANGED <<engine, fs, dirs, file_memory, memory_file, tasks, learning>>

SuggestionsNext ==
    \/ store_smart_suggestions
    \/ api_generate_suggestions

SuggestionsSpec == SuggestionsInit /\ [][SuggestionsNext]_vars

(***************************************************************************)
(* The web search as a coroutine.  smart_search awaits its strategies one  *)
(* after the other; a strategy consumes _async_scan_directory, which       *)
(* hands out the entries of rglob and, after an entry that is a file,      *)
(* awaits asyncio.sleep(0): there the event loop may run another           *)
(* coroutine or deliver a cancellation.  A step of a task runs it from one *)
(* such await to the next, or to its return.                               *)
(***************************************************************************)
MaxTasks == 2

TaskIds == 1..MaxTasks

AsyncQueries == {"large", "new small"}

AsyncRootLists == { <<>>, << Home \o <<"Nowhere">>, Home \o <<"Downloads">> >> }

AsyncFilesystems ==
    { {f \in FileUniverse :
          f.path \in {Home \o <<"Downloads", "large.txt">>,
                      Home \o <<"Documents", "sub", "notes.txt">>}},
      {f \in FileUniverse :
          f.path \in {Home \o <<"Pictures", "a.jpg">>,
                      Home \o <<"Downloads", "a.jpg">>}} }

\* if item.is_file(): await asyncio.sleep(0), taken after a directory instead
SuspendsAfterDirectory(item) == ~is_file(item)

\* if item.is_file(): await asyncio.sleep(0)
SuspendsAfter(item) == is_file(item)

\* whether strategy k walks the search directories for the query
Scans(k, query) ==
    CASE k = 3 -> target_category(query) # ""
      [] k = 4 -> \/ AnyIn({"today", "recent", "new", "latest"}, query)
                  \/ AnyIn({"old", "archive", "backup"}, query)
      [] k = 5 -> \/ AnyIn({"large", "big", "huge"}, query)
                  \/ AnyIn({"small", "tiny"}, query)
      [] OTHER -> TRUE

\* the entries strategy k is handed, in order
ScanOf(k, query, search_dirs) ==
    IF Scans(k, query) THEN Scan(search_dirs) ELSE <<>>

Strategy(k, query, search_dirs) ==
    CASE k = 1 -> search_by_filename(query, search_dirs)
      [] k = 2 -> search_by_content_keywords(query, search_dirs)
      [] k = 3 -> search_by_file_type(query, search_dirs)
      [] k = 4 -> search_by_date_context(query, search_dirs)
      [] k = 5 -> search_by_size_context(query, search_dirs)

\* the test of strategy k on one entry: the entry is what the strategy
\* finds in the entry's own directory
Accepts(k, query, file_path) ==
    file_path \in Range(Strategy(k, query, <<Parent(file_path)>>))

\* the locals of a call that has just been made
Call(query, file_paths) ==
    [state |-> "running", query |-> Lower(query),
     search_dirs |-> IF file_paths = <<>> THEN scan_dirs
                     ELSE [i \in 1..Len(file_paths) |-> PathOf(file_paths[i])],
     strategy |-> 1, scanned |-> 0, results |-> <<>>, found_files |-> <<>>]

\* the coroutine c run up to its next await or to its return
RECURSIVE Run(_)
Run(c) ==
    IF c.strategy > 5
    THEN [state |-> "done", query |-> c.query, search_dirs |-> c.search_dirs,
          ranked |-> FirstN(api_rank_search_results(
                                RemoveDuplicatesByStr(c.found_files, {}), c.query), ResultLimit)]
    ELSE LET items == ScanOf(c.strategy, c.query, c.search_dirs)
         IN  IF c.scanned = Len(items)
             THEN \* return results; found_files.extend(strategy_results)
                  Run([c EXCEPT !.strategy = @ + 1, !.scanned = 0, !.results = <<>>,
                                !.found_files = @ \o c.results])
             ELSE LET item == items[c.scanned + 1]
                      next == [c EXCEPT !.scanned = @ + 1,
                                        !.results = IF Accepts(c.strategy, c.query, item)
                                                    THEN Append(@, item) ELSE @]
                  IN  IF SuspendsAfter(item)
                      THEN [next EXCEPT !.state = "suspended"]
                      ELSE Run(next)

\* a call that returns notes whether another call was in flight
AtReturn(c, concurrent) ==
    IF c.state = "done"
    THEN [state |-> "done", query |-> c.query, search_dirs |-> c.search_dirs,
          ranked |-> c.ranked, concurrent |-> concurrent]
    ELSE c

\* AfterStep with one results list shared by the coroutines in flight
AfterStepSharedResults(tk, t) ==
    [u \in DOMAIN tk |->
        IF u = t
        THEN AtReturn(Run(tk[t]),
                      \E v \in DOMAIN tk \ {t} : tk[v].state = "suspended")
        ELSE IF tk[u].state = "suspended" /\ Run(tk[t]).state = "suspended"
             THEN [tk[u] EXCEPT !.results = Run(tk[t]).results]
             ELSE tk[u]]

\* the tasks after task t has run a step: the locals of a coroutine are
\* its own, a step of t leaves the other tasks as they are
AfterStep(tk, t) ==
    [tk EXCEPT ![t] = AtReturn(Run(tk[t]),
                               \E v \in DOMAIN tk \ {t} : tk[v].state = "suspended")]

AsyncInit ==
    /\ engine = "JaymiFileIntelligenceAPI"
    /\ fs \in AsyncFilesystems
    /\ dirs = {<<"home">>, Home} \cup DirsOf(fs) \cup ScanDirSet
    /\ file_memory = [organization_preferences |-> NoPreferences,
                      smart_suggestions |-> <<>>]
    /\ out = [op |-> "init"]
    /\ memory_file = file_memory
    /\ tasks = [t \in TaskIds |-> [state |-> "idle"]]
    /\ learning = NoLearning

\* a request arrives and its coroutine runs to its first await
start_search(t, query, file_paths) ==
    /\ tasks[t].state \in {"idle", "done", "cancelled"}
    /\ tasks' = AfterStep([tasks EXCEPT ![t] = Call(query, file_paths)], t)
    /\ UNCHANGED <<engine, fs, dirs, file_memory, out, memory_file, learning>>

\* the event loop resumes a coroutine that awaits asyncio.sleep(0)
resume_search(t) ==
    /\ tasks[t].state = "suspended"
    /\ tasks' = AfterStep(tasks, t)
    /\ UNCHANGED <<engine, fs, dirs, file_memory, out, memory_file, learning>>

\* the task is cancelled at its await: CancelledError unwinds the
\* generator, the strategy and smart_search, none of which catches it,
\* and the locals are gone
cancel_search(t) ==
    /\ tasks[t].state = "suspended"
    /\ tasks' = [tasks EXCEPT ![t] = [state |-> "cancelled"]]
    /\ UNCHANGED <<engine, fs, dirs, file_memory, out, memory_file, learning>>

AsyncNext ==
    \/ \E t \in TaskIds, query \in AsyncQueries, file_paths \in AsyncRootLists :
          start_search(t, query, file_paths)
    \/ \E t \in TaskIds : resume_search(t)
    \/ \E t \in TaskIds : cancel_search(t)

AsyncSpec == AsyncInit /\ [][AsyncNext]_vars

(***************************************************************************)
(* The learning pass step by step, and the readers of the preference       *)
(* table.  The command-line engine is one synchronous thread: its ranker   *)
(* and its planner read the table between two handlers.  Another process   *)
(* that starts meanwhile reads the memory file.  save_file_memory opens    *)
(* the file with mode 'w', which empties it, and json.dump then writes     *)
(* into it.                                                                *)
(***************************************************************************)
\* the content of the file between open(..., 'w') and the end of the dump:
\* nothing, or the beginning of a JSON document
Truncated == [truncated |-> TRUE]

\* what load_file_memory returns when the file cannot be parsed
DefaultMemory == [organization_preferences |-> NoPreferences, smart_suggestions |-> <<>>]

\* load_file_memory on the file content
load_file_memory(content) ==
    IF content = Truncated THEN DefaultMemory ELSE content

MemoryInit ==
    /\ engine = "JaymiFileIntelligence"
    /\ fs \in {files \in SUBSET FileUniverse : Cardinality(files) <= MaxFiles}
             \cup ScenarioFilesystems
    /\ dirs = {<<"home">>, Home} \cup DirsOf(fs) \cup ScanDirSet
    /\ file_memory \in
          {[organization_preferences |-> NoPreferences, smart_suggestions |-> <<>>],
           [organization_preferences |-> SavedPreferences, smart_suggestions |-> <<>>]}
    /\ memory_file = file_memory
    /\ out = [op |-> "init"]
    /\ tasks = NoTasks
    /\ learning = NoLearning

\* analyze_file_system scans the directories and calls
\* learn_organization_patterns
begin_learning ==
    /\ learning.pc = "idle"
    /\ \E observed \in {Observed(scan_dirs)} :
          learning' = [pc |-> "learn", observed |-> observed,
                       pending |-> CategoriesMet(observed),
                       before |-> file_memory.organization_preferences,
                       after |-> learn_organization_patterns(
                                     observed, file_memory.organization_preferences)]
    /\ UNCHANGED <<engine, fs, dirs, file_memory, out, memory_file, tasks>>

\* self.file_memory["organization_preferences"][category] = {...}
learn_category ==
    /\ learning.pc = "learn"
    /\ learning.pending # <<>>
    /\ LET category == Head(learning.pending)
       IN  file_memory' =
              [file_memory EXCEPT !.organization_preferences =
                  [c \in DOMAIN @ \cup {category} |->
                      IF c = category
                      THEN Preference(LocationsOf(learning.observed, category))
                      ELSE @[c]]]
    /\ learning' = [learning EXCEPT !.pending = Tail(@)]
    /\ UNCHANGED <<engine, fs, dirs, out, memory_file, tasks>>

\* save_file_memory: with open(self.file_memory_file, 'w') as f
open_memory_file ==
    /\ \/ learning.pc = "learn" /\ learning.pending = <<>>
       \/ learning.pc = "suggested"
    /\ memory_file' = Truncated
    /\ learning' = [learning EXCEPT !.pc = IF @ = "learn" THEN "dump" ELSE "dump_suggested"]
    /\ UNCHANGED <<engine, fs, dirs, file_memory, out, tasks>>

\* save_file_memory: json.dump(self.file_memory, f, indent=2) and close
dump_memory_file ==
    /\ learning.pc \in {"dump", "dump_suggested"}
    /\ memory_file' = file_memory
    /\ learning' = [learning EXCEPT !.pc = IF @ = "dump" THEN "suggest" ELSE "idle"]
    /\ UNCHANGED <<engine, fs, dirs, file_memory, out, tasks>>

\* generate_smart_suggestions: self.file_memory["smart_suggestions"] = suggestions
suggest ==
    /\ learning.pc = "suggest"
    /\ file_memory' = [file_memory EXCEPT
                          !.smart_suggestions = Suggestions(learning.observed)]
    /\ learning' = [learning EXCEPT !.pc = "suggested"]
    /\ UNCHANGED <<engine, fs, dirs, out, memory_file, tasks>>

\* the ranker or the planner of the engine reads the table: only between
\* two handlers, the engine has one thread
read_preferences ==
    /\ learning.pc = "idle"
    /\ out' = [op |-> "rank_search_results",
               res |-> file_memory.organization_preferences,
               pc |-> learning.pc,
               before |-> file_memory.organization_preferences,
               after |-> file_memory.organization_preferences]
    /\ UNCHANGED <<engine, fs, dirs, file_memory, memory_file, tasks, learning>>

\* another process is started and loads the file, at any moment
start_process ==
    /\ out' = [op |-> "load_file_memory",
               res |-> load_file_memory(memory_file).organization_preferences,
               pc |-> learning.pc,
               before |-> IF learning.pc = "idle"
                          THEN file_memory.organization_preferences
                          ELSE learning.before,
               after |-> IF learning.pc = "idle"
                         THEN file_memory.organization_preferences
                         ELSE learning.after]
    /\ UNCHANGED <<engine, fs, dirs, file_memory, memory_file, tasks, learning>>

MemoryNext ==
    \/ begin_learning
    \/ learn_category
    \/ open_memory_file
    \/ dump_memory_file
    \/ suggest
    \/ read_preferences
    \/ start_process

MemorySpec == MemoryInit /\ [][MemoryNext]_vars

(***************************************************************************)
(* Properties.                                                             *)
(***************************************************************************)
IsSearchCall == out.op \in {"smart_file_search", "smart_search"}

\* a search that returned
IsSearch == IsSearchCall /\ out.error = ""

Prefs == file_memory.organization_preferences

\* the file lies below one of the directories
Below(f, directories) ==
    \E k \in 1..Len(directories) :
        /\ IsPrefix(Canonical(directories[k]), f.path)
        /\ Len(f.path) > Len(Canonical(directories[k]))

\* the files a search could see
InScope(f) == f \in fs /\ Below(f, out.search_dirs)

RankedPaths == {Canonical(out.ranked[i].file) : i \in 1..Len(out.ranked)}

RankedName(i) == Lower(Name(out.ranked[i].file))

AtLeastTen(score) == Scaled(score, score.den) >= 20 * score.den

\* C1: after a search, every merged file whose lowercase name equals the
\* query is ranked with a score of at least 10.0, and stands before every
\* ranked file whose name only contains the query.
C1_ExactNameOutranksSubstring ==
    IsSearch =>
        /\ \A i \in 1..Len(out.unique_files) :
              Lower(Name(out.unique_files[i])) = out.query
                 => \E k \in 1..Len(out.ranked) : out.ranked[k].file = out.unique_files[i]
        /\ \A k \in 1..Len(out.ranked) :
              RankedName(k) = out.query
                 => /\ AtLeastTen(out.ranked[k].score)
                    /\ \A j \in 1..Len(out.ranked) :
                          (Contains(RankedName(j), out.query) /\ RankedName(j) # out.query)
                             => k < j

\* an exact match ranked before a substring match that is newer and has a
\* preference bonus
C1_Witness ==
    /\ IsSearch
    /\ \E k, j \in 1..Len(out.ranked) :
          /\ RankedName(k) = out.query
          /\ Contains(RankedName(j), out.query) /\ RankedName(j) # out.query
          /\ stat(out.ranked[k].file).days_old >= 30
          /\ stat(out.ranked[j].file).days_old < 7
          /\ out.ranked[j].score.num > 0

\* C2: the ranked output of a search never holds two results with the same
\* canonical absolute path.
C2_NoTwoResultsForOneFile ==
    IsSearch =>
        \A i, j \in 1..Len(out.ranked) :
            i # j => Canonical(out.ranked[i].file) # Canonical(out.ranked[j].file)

\* C3: no strategy returns a zero-byte file, and none is ranked.
C3_NoEmptyFileReturned ==
    IsSearch =>
        /\ \A s \in 1..Len(out.strategy_results) :
              \A i \in 1..Len(out.strategy_results[s]) :
                  stat(out.strategy_results[s][i]).size > 0
        /\ \A i \in 1..Len(out.ranked) : stat(out.ranked[i].file).size > 0

\* a search for small new files over an empty file that is new, with
\* results from the size and the date strategy
C3_Witness ==
    /\ IsSearch
    /\ out.query = "new small"
    /\ \E f \in fs : InScope(f) /\ f.size = 0 /\ f.days_old < 7
    /\ out.strategy_results[4] # <<>>
    /\ out.strategy_results[5] # <<>>

IsDirectoryAnalysis ==
    \/ out.op \in {"analyze_file_system", "analyze_system"}
    \/ out.op = "analyze_path" /\ out.error = "" /\ ~is_file(PathOf(out.call[2]))

AnalysisRoots ==
    IF out.op = "analyze_path" THEN <<PathOf(out.call[2])>> ELSE scan_dirs

\* the non-empty regular files of a category below the analysed directories
NonEmptyOf(category) ==
    {f \in fs : f.size > 0 /\ Below(f, AnalysisRoots)
                /\ categorize_file(f.path) = category}

NonEmptyFiles == {f \in fs : f.size > 0 /\ Below(f, AnalysisRoots)}

RECURSIVE TotalSize(_)
TotalSize(files) ==
    IF files = {} THEN 0
    ELSE LET f == CHOOSE g \in files : TRUE IN f.size + TotalSize(files \ {f})

\* C4, as amended: an analysis reports for each category the number of
\* non-empty regular files of that category below the analysed directories
\* (and no entry for a category without one), the number of all of them and
\* the sum of their sizes in bytes; the web engine reports each category's
\* size as that category's byte sum in MiB rounded to two decimals, the
\* command-line engine reports no size per category.
C4_AnalysisCountsNonEmptyFiles ==
    IsDirectoryAnalysis =>
        /\ DOMAIN out.res.categories = {c \in Categories : NonEmptyOf(c) # {}}
        /\ \A c \in DOMAIN out.res.categories :
              out.res.categories[c] = Cardinality(NonEmptyOf(c))
        /\ out.res.total_files = Cardinality(NonEmptyFiles)
        /\ out.res.total_size = TotalSize(NonEmptyFiles)
        /\ IF out.op = "analyze_file_system"
           THEN "category_sizes" \notin DOMAIN out.res
           ELSE \A c \in DOMAIN out.res.categories :
                   out.res.category_sizes[c] = RoundMB(TotalSize(NonEmptyOf(c)))

\* scenario 1 analysed by the web engine: two images, 8000 bytes in all,
\* reported as 0.01 MiB of images
C4_Witness ==
    /\ out.op = "analyze_system"
    /\ fs \in ScenarioFilesystems
    /\ out.res.categories["images"] = 2
    /\ out.res.total_size = 8000
    /\ out.res.category_sizes["images"] = 1

\* C4, as claimed: an analysis reports for each category the number of
\* non-empty files and a size that is the sum of their sizes in bytes.
C4_CategorySizeInBytes ==
    IsDirectoryAnalysis =>
        \A c \in DOMAIN out.res.categories :
            /\ out.res.categories[c] = Cardinality(NonEmptyOf(c))
            /\ "category_sizes" \in DOMAIN out.res
            /\ out.res.category_sizes[c] % 100 = 0
            /\ out.res.category_sizes[c] \div 100 = TotalSize(NonEmptyOf(c))

IsAnalysis ==
    out.op \in {"analyze_file_system", "analyze_system", "analyze_path"}

\* C5: an analysis run right after the same analysis, the filesystem
\* unchanged in between, returns the same counts and sizes.
C5_AnalysisIdempotent ==
    (IsAnalysis /\ out.error = "" /\ out.prev # <<>>) => out.prev[1] = out.res

\* a second analysis of a filesystem with a non-empty file
C5_Witness ==
    /\ out.op = "analyze_file_system"
    /\ out.prev # <<>>
    /\ out.res.total_files > 0

InUnitInterval(confidence) ==
    confidence.den > 0 /\ 0 <= confidence.num /\ confidence.num <= confidence.den

\* the non-empty files of a category that a learning pass observes
ObservedOf(category) ==
    {f \in fs : f.size > 0 /\ Below(f, scan_dirs) /\ categorize_file(f.path) = category}

\* C6: every stored preference has a confidence in [0,1], and right after a
\* learning pass the confidence is 1.0 for every category whose observed
\* files (at least one) all lie in one parent directory.
C6_ConfidenceInUnitInterval ==
    /\ \A c \in DOMAIN Prefs : InUnitInterval(Prefs[c].confidence)
    /\ out.op = "analyze_file_system" =>
          \A c \in Categories :
              (/\ ObservedOf(c) # {}
               /\ \A f, g \in ObservedOf(c) : Parent(f.path) = Parent(g.path))
                 => /\ c \in DOMAIN Prefs
                    /\ Prefs[c].confidence.num = Prefs[c].confidence.den

\* a learning pass over two files of one category in one directory
C6_Witness ==
    /\ out.op = "analyze_file_system"
    /\ \E c \in Categories :
          /\ Cardinality(ObservedOf(c)) >= 2
          /\ \A f, g \in ObservedOf(c) : Parent(f.path) = Parent(g.path)

\* C7: no move is planned or made for a file whose category has no learned
\* preference in the preference table, nor for a file that already lies in
\* the preferred location of its category.
C7_MovesFollowLearnedPreferences ==
    /\ (out.op = "auto_organize" /\ out.error = "") =>
          \A i \in 1..Len(out.organization_plan) :
              /\ out.organization_plan[i].category \in DOMAIN Prefs
              /\ out.organization_plan[i].from # out.organization_plan[i].to
    /\ out.op = "auto_organize_files" =>
          \A i \in 1..Len(out.moves) :
              /\ out.moves[i].category \in DOMAIN Prefs
              /\ Name(Parent(out.moves[i].file))
                    # Prefs[out.moves[i].category].preferred_location

\* organizing Downloads, holding exactly one non-empty file, a .jpg, with
\* dry_run true: the plan is the move of that file to Pictures
C8_Scenario ==
    (/\ out.op = "auto_organize" /\ out.error = "" /\ out.dry_run
     /\ PathOf(out.path) = Home \o <<"Downloads">>
     /\ \E f \in fs :
           /\ Parent(f.path) = Home \o <<"Downloads">> /\ f.size > 0
           /\ Lower(Suffix(Name(f.path))) = ".jpg"
           /\ \A g \in fs : Parent(g.path) = Parent(f.path) => g = f)
        => /\ Len(out.organization_plan) = 1
           /\ out.organization_plan[1].action = "move"
           /\ out.organization_plan[1].from = "/home/u/Downloads"
           /\ out.organization_plan[1].to = "/home/u/Pictures"

LargeThreshold == 10 * 1024 * 1024

\* the location bonus of the command-line ranker applies to the file
HasLocationBonus(path) ==
    /\ engine = "JaymiFileIntelligence"
    /\ categorize_file(path) \in DOMAIN Prefs
    /\ Contains(Str(Parent(path)), Prefs[categorize_file(path)].preferred_location)

\* C9: for the query "large" the ranked results are exactly the files in
\* scope that are larger than 10 MiB.
C9_LargeQueryReturnsLargeFiles ==
    (IsSearch /\ out.query = "large") =>
        \A f \in fs :
            InScope(f) => (f.size > LargeThreshold <=> f.path \in RankedPaths)

\* the points of a ranked file that do not come from its location
SameButLocation(i, j) ==
    /\ Name(out.ranked[i].file) = Name(out.ranked[j].file)
    /\ RecencyPoints(stat(out.ranked[i].file).days_old)
          = RecencyPoints(stat(out.ranked[j].file).days_old)

\* C10: in a ranking by the command-line engine, a file whose category has
\* a preference whose location occurs in the file's parent path has that
\* preference's confidence as the fractional part of its score, any other
\* file has none; so of two files alike but for their location, the one in
\* the preferred location scores exactly the confidence more.
C10_LocationBonusIsConfidence ==
    (out.op = "smart_file_search" /\ out.error = "") =>
        \A i \in 1..Len(out.ranked) :
            LET file == out.ranked[i].file
                score == out.ranked[i].score
            IN  /\ HasLocationBonus(file) =>
                      LET confidence == Prefs[categorize_file(file)].confidence
                      IN  score.num * confidence.den = confidence.num * score.den
                /\ ~HasLocationBonus(file) => score.num = 0
                /\ \A j \in 1..Len(out.ranked) :
                      (/\ SameButLocation(i, j)
                       /\ HasLocationBonus(file)
                       /\ ~HasLocationBonus(out.ranked[j].file))
                         => score.half = out.ranked[j].score.half

\* scenario 4: images are preferred in Pictures with confidence 0.8, and an
\* image in Pictures is ranked with its twin in Downloads
C10_Witness ==
    /\ out.op = "smart_file_search" /\ out.error = ""
    /\ "images" \in DOMAIN Prefs
    /\ Prefs["images"].preferred_location = "Pictures"
    /\ Prefs["images"].confidence = [num |-> 4, den |-> 5]
    /\ \E i, j \in 1..Len(out.ranked) :
          /\ SameButLocation(i, j)
          /\ HasLocationBonus(out.ranked[i].file)
          /\ ~HasLocationBonus(out.ranked[j].file)
          /\ categorize_file(out.ranked[i].file) = "images"

\* C11: a search during which the stat of one path raises OSError still
\* returns: the path is skipped, no error leaves the call.
C11_SearchSurvivesIOError ==
    IsSearchCall => out.error = ""

\* C12: a search over roots of which one does not exist raises nothing for
\* it (only a failing stat ends a search with an error) and ranks every
\* non-empty file below the other roots whose name contains the query;
\* analyze_path raises ValueError exactly when its path does not exist, and
\* for an existing directory without a non-empty file below it returns
\* zero counts and no error.
C12_MissingRootSkippedMissingPathReported ==
    /\ IsSearchCall =>
          /\ out.error # "" => \E f \in fs : f.path = out.failing
          /\ out.error = "" =>
                \A f \in fs :
                    (InScope(f) /\ f.size > 0 /\ Contains(Lower(Name(f.path)), out.query))
                       => f.path \in RankedPaths
    /\ out.op = "analyze_path" =>
          /\ out.error = "ValueError" <=> ~exists(PathOf(out.call[2]))
          /\ out.error \in {"", "ValueError"}
          /\ (/\ exists(PathOf(out.call[2]))
              /\ ~is_file(PathOf(out.call[2]))
              /\ ~\E f \in fs : f.size > 0 /\ Below(f, <<PathOf(out.call[2])>>))
                => /\ out.res.total_files = 0
                   /\ out.res.total_size = 0
                   /\ DOMAIN out.res.categories = {}

\* a search over a missing root and an existing one that ranks a file of
\* the existing one
C12_Witness ==
    /\ IsSearch
    /\ \E k \in 1..Len(out.search_dirs) : ~exists(out.search_dirs[k])
    /\ \E k \in 1..Len(out.search_dirs) : exists(out.search_dirs[k])
    /\ out.op = "smart_search"
    /\ out.ranked # <<>>

\* C13: in an organizing run every file of the batch whose category has a
\* target is attempted, whether or not an earlier move failed: it is either
\* moved, and then lies at its target and is counted, or reported as
\* failed, and then lies where it was; the count is the number of moves.
C13_FailedMoveDoesNotAbortBatch ==
    (out.op = "auto_organize_files" /\ out.organized_count >= 0) =>
        /\ \A i \in 1..Len(out.files_to_organize) :
              LET file_path == out.files_to_organize[i]
                  moved == \E k \in 1..Len(out.moves) : out.moves[k].file = file_path
                  failed == \E k \in 1..Len(out.failed) : out.failed[k] = file_path
              IN  /\ HasTarget(file_path, Prefs) <=> (moved \/ failed)
                  /\ ~(moved /\ failed)
                  /\ ~moved <=> is_file(file_path)
        /\ \A k \in 1..Len(out.moves) :
              /\ is_file(out.moves[k].to)
              /\ Parent(out.moves[k].to)
                    = location_mapping[Prefs[out.moves[k].category].preferred_location]
        /\ out.organized_count = Len(out.moves)

\* a batch whose first move failed and whose second move was made
C13_Witness ==
    /\ out.op = "auto_organize_files"
    /\ Len(out.files_to_organize) = 2
    /\ out.failed = <<out.files_to_organize[1]>>
    /\ Len(out.moves) = 1
    /\ out.moves[1].file = out.files_to_organize[2]
    /\ out.organized_count = 1

\* position of a file in the merged list of a search
Discovery(file) ==
    CHOOSE i \in 1..Len(out.unique_files) : out.unique_files[i] = file

\* the preference table the ranker of the engine reads
RankerPreferences ==
    IF engine = "JaymiFileIntelligence" THEN Prefs ELSE NoPreferences

\* C14: the ranked output is in descending order of score, entries of
\* equal score stand in their order of discovery in the merged list, every
\* entry has a score above 0, and no merged file whose score is not above 0
\* is ranked.
C14_RankedDescendingStablePositive ==
    IsSearch =>
        /\ \A i, j \in 1..Len(out.ranked) :
              i < j =>
                 \/ ScoreGT(out.ranked[i].score, out.ranked[j].score)
                 \/ /\ ScoreEQ(out.ranked[i].score, out.ranked[j].score)
                    /\ Discovery(out.ranked[i].file) < Discovery(out.ranked[j].file)
        /\ \A i \in 1..Len(out.ranked) :
              /\ ScorePositive(out.ranked[i].score)
              /\ \E k \in 1..Len(out.unique_files) :
                    out.unique_files[k] = out.ranked[i].file
        /\ \A k \in 1..Len(out.unique_files) :
              (\E i \in 1..Len(out.ranked) : out.ranked[i].file = out.unique_files[k])
                 => ScorePositive(ScoreOf(out.unique_files[k], out.query,
                                          RankerPreferences))

\* two ranked files of equal score and a merged file that was dropped
C14_Witness ==
    /\ IsSearch
    /\ \E i, j \in 1..Len(out.ranked) :
          i < j /\ ScoreEQ(out.ranked[i].score, out.ranked[j].score)
    /\ Len(out.ranked) < Len(out.unique_files)

\* the canonical paths a strategy returned
Returned(strategy) ==
    {Canonical(out.strategy_results[strategy][i]) :
        i \in 1..Len(out.strategy_results[strategy])}

\* C15: the type strategy returns nothing for a query without a type
\* keyword; otherwise it returns exactly the non-empty files in scope of one
\* category, that of the first keyword of the dictionary that occurs in the
\* query, wherever in the query it stands.
C15_TypeStrategyFirstDictionaryKeyword ==
    IsSearch =>
        IF \A i \in 1..Len(type_keywords) : ~Contains(out.query, type_keywords[i][1])
        THEN out.strategy_results[3] = <<>>
        ELSE \E i \in 1..Len(type_keywords) :
                /\ Contains(out.query, type_keywords[i][1])
                /\ \A j \in 1..(i - 1) : ~Contains(out.query, type_keywords[j][1])
                /\ Returned(3)
                      = {f.path : f \in {g \in fs :
                            /\ InScope(g) /\ g.size > 0
                            /\ categorize_file(g.path) = type_keywords[i][2]}}

\* "movie photo": the images in scope are returned, the video in scope,
\* whose keyword comes first in the query, is not
C15_Witness ==
    /\ IsSearch
    /\ out.query = "movie photo"
    /\ \E f \in fs : InScope(f) /\ categorize_file(f.path) = "images"
                      /\ f.path \in Returned(3)
    /\ \E f \in fs : InScope(f) /\ f.size > 0 /\ categorize_file(f.path) = "video"
                      /\ f.path \notin Returned(3)

\* the paths of a set of files
Paths(files) == {f.path : f \in files}

\* C16: the date strategy returns the non-empty files in scope modified
\* less than 7 days ago when the query contains today, recent, new or
\* latest, whether or not it also contains an old keyword; the non-empty
\* files in scope modified 90 days ago or earlier when it contains old,
\* archive or backup and no recent keyword; nothing otherwise.
C16_DateStrategyRecentBeforeOld ==
    IsSearch =>
        Returned(4) =
            IF AnyIn({"today", "recent", "new", "latest"}, out.query)
            THEN Paths({f \in fs : InScope(f) /\ f.size > 0 /\ f.days_old < 7})
            ELSE IF AnyIn({"old", "archive", "backup"}, out.query)
                 THEN Paths({f \in fs : InScope(f) /\ f.size > 0 /\ f.days_old >= 90})
                 ELSE {}

\* a query with "old" and "new": the file of yesterday is returned, the
\* file of 100 days ago is not
C16_Witness ==
    /\ IsSearch
    /\ Contains(out.query, "old") /\ Contains(out.query, "new")
    /\ \E f \in fs : InScope(f) /\ f.days_old < 7 /\ f.path \in Returned(4)
    /\ \E f \in fs : InScope(f) /\ f.size > 0 /\ f.days_old >= 90
                      /\ f.path \notin Returned(4)

\* C17: the size strategy returns the files in scope larger than 10 MiB
\* when the query contains large, big or huge, whether or not it also
\* contains a small keyword; the files in scope with 0 < size < 100 KiB when
\* it contains small or tiny and no large keyword; nothing otherwise.  A
\* file of exactly 10 MiB or exactly 100 KiB is returned by neither branch.
C17_SizeStrategyLargeBeforeSmall ==
    IsSearch =>
        /\ Returned(5) =
              IF AnyIn({"large", "big", "huge"}, out.query)
              THEN Paths({f \in fs : InScope(f) /\ f.size > 10 * MiB})
              ELSE IF AnyIn({"small", "tiny"}, out.query)
                   THEN Paths({f \in fs : InScope(f) /\ 0 < f.size
                                             /\ f.size < 100 * 1024})
                   ELSE {}
        /\ \A f \in fs :
              f.size \in {10 * MiB, 100 * 1024} => f.path \notin Returned(5)

\* a query with "tiny" and "big" over a file of 15 MiB, returned, a file
\* of exactly 10 MiB and a file of a few KiB, not returned
C17_Witness ==
    /\ IsSearch
    /\ Contains(out.query, "tiny") /\ Contains(out.query, "big")
    /\ \E f \in fs : InScope(f) /\ f.size > 10 * MiB /\ f.path \in Returned(5)
    /\ \E f \in fs : InScope(f) /\ f.size = 10 * MiB /\ f.path \notin Returned(5)
    /\ \E f \in fs : InScope(f) /\ 0 < f.size /\ f.size < 100 * 1024
                      /\ f.path \notin Returned(5)

\* C18: the content strategy returns exactly the non-empty files in scope
\* with an extension of the text allow-list and a size of at most 1 MiB
\* whose lowercased content contains the query.
C18_ContentStrategyUpToOneMiB ==
    IsSearch =>
        Returned(2) =
            Paths({f \in fs :
                      /\ InScope(f)
                      /\ Lower(Suffix(Name(f.path))) \in text_extensions
                      /\ 0 < f.size /\ f.size <= MiB
                      /\ Contains(Lower(f.content), out.query)})

\* index in scan_dirs of the scan directory a file lies below
RootIndex(f) == CHOOSE k \in 1..Len(scan_dirs) : IsPrefix(scan_dirs[k], f.path)

\* the observed files of a category below the k-th scan directory
ObservedUnder(category, k) == {f \in ObservedOf(category) : RootIndex(f) = k}

\* the observed files of a category that lie directly in a directory of
\* that name
ObservedInParent(category, name) ==
    {f \in ObservedOf(category) : Name(Parent(f.path)) = name}

\* C19, as amended: after a learning pass the preferred_location of each
\* observed category is the name of the scan directory below which most of
\* its non-empty files lie, at any depth (the first such directory in scan
\* order when several hold equally many), and the confidence is the number
\* of its files below that directory divided by the number of its files.
C19_PreferredLocationIsScanRoot ==
    out.op = "analyze_file_system" =>
        \A c \in Categories :
            ObservedOf(c) # {} =>
                /\ c \in DOMAIN Prefs
                /\ \E k \in 1..Len(scan_dirs) :
                      /\ Prefs[c].preferred_location = Name(scan_dirs[k])
                      /\ \A j \in 1..Len(scan_dirs) :
                            Cardinality(ObservedUnder(c, j))
                               <= Cardinality(ObservedUnder(c, k))
                      /\ \A j \in 1..(k - 1) :
                            Cardinality(ObservedUnder(c, j))
                               < Cardinality(ObservedUnder(c, k))
                      /\ Prefs[c].confidence.num = Cardinality(ObservedUnder(c, k))
                      /\ Prefs[c].confidence.den = Cardinality(ObservedOf(c))

\* a learning pass over a document in Documents/sub: the preference learned
\* for documents is Documents
C19_Witness ==
    /\ out.op = "analyze_file_system"
    /\ \E f \in ObservedOf("documents") : Name(Parent(f.path)) = "sub"
    /\ Prefs["documents"].preferred_location = "Documents"

\* C19, as claimed: the preferred_location of each observed category is the
\* most frequent name of the directory its files lie in directly, and the
\* confidence the frequency of that name over the number of files.
C19_PreferredLocationIsImmediateParent ==
    out.op = "analyze_file_system" =>
        \A c \in Categories :
            ObservedOf(c) # {} =>
                /\ c \in DOMAIN Prefs
                /\ \A f \in ObservedOf(c) :
                      Cardinality(ObservedInParent(c, Name(Parent(f.path))))
                         <= Cardinality(ObservedInParent(c, Prefs[c].preferred_location))
                /\ Prefs[c].confidence.num * Cardinality(ObservedOf(c))
                      = Prefs[c].confidence.den
                          * Cardinality(ObservedInParent(c, Prefs[c].preferred_location))

\* C20: no step removes a category from the preference table; a learning
\* pass leaves the record of every category it did not observe as it was
\* and gives every category it observed a record of this pass, whose
\* confidence is over the number of files observed now.
C20_LearningUpdatesPerCategory ==
    [][/\ DOMAIN Prefs \subseteq DOMAIN file_memory'.organization_preferences
       /\ out'.op = "analyze_file_system" =>
             \A c \in Categories :
                 IF ObservedOf(c) = {}
                 THEN c \in DOMAIN Prefs =>
                         file_memory'.organization_preferences[c] = Prefs[c]
                 ELSE /\ c \in DOMAIN file_memory'.organization_preferences
                      /\ file_memory'.organization_preferences[c].confidence.den
                            = Cardinality(ObservedOf(c))]_vars

\* after a learning pass that met documents and no image: the saved
\* preference for images is still in the table, beside the one learned
C20_Witness ==
    /\ out.op = "analyze_file_system"
    /\ ObservedOf("images") = {}
    /\ "images" \in DOMAIN Prefs
    /\ Prefs["images"] = SavedPreferences["images"]
    /\ ObservedOf("documents") # {}
    /\ "documents" \in DOMAIN Prefs

(***************************************************************************)
(* C21: the insight generator emits between 0 and 3 suggestions, in the   *)
(* order storage-optimization, organization, cleanup, each exactly when    *)
(* its threshold is exceeded: total size > 1 GiB (naming the category with *)
(* the largest size), more than 20 'other' files, more than 5 archives; a  *)
(* total size at or below 1 GiB, 20 'other' files or 5 archives produce no *)
(* corresponding suggestion.                                               *)
(***************************************************************************)
IsSuggestions == out.op \in {"generate_smart_suggestions", "_generate_suggestions"}

SuggestionTypes == [i \in 1..Len(out.suggestions) |-> out.suggestions[i].type]

C21_SuggestionsAtFixedThresholds ==
    IsSuggestions =>
        /\ Len(out.suggestions) \in 0..3
        /\ SuggestionTypes =
              (IF SumValues(out.size_stats) > GiB
               THEN <<"storage_optimization">> ELSE <<>>)
              \o (IF Get(out.file_stats, "other") > 20
                  THEN <<"organization">> ELSE <<>>)
              \o (IF Get(out.file_stats, "archives") > 5
                  THEN <<"cleanup">> ELSE <<>>)
        /\ \A i \in 1..Len(out.suggestions) :
              out.suggestions[i].type = "storage_optimization" =>
                  \A j \in 1..Len(out.size_stats) :
                      /\ out.size_stats[j][2] <= out.suggestions[i].size
                      /\ out.size_stats[j][1] = out.suggestions[i].category
                            => out.size_stats[j][2] = out.suggestions[i].size


(***************************************************************************)
(* C22: the result of a search does not depend on the order in which the  *)
(* five strategies are evaluated: on an unchanged filesystem, running them *)
(* in any order and then merging and ranking yields the same ranked        *)
(* results, the same files, the same scores and the same order, including  *)
(* the returned top-N.                                                     *)
(***************************************************************************)
\* the strategies of the search of out that found something
ActiveStrategies == {k \in 1..5 : out.strategy_results[k] # <<>>}

\* the orders in which they can run; where a strategy that found nothing
\* runs makes no difference to the list
StrategyOrders ==
    {p \in [1..Cardinality(ActiveStrategies) -> ActiveStrategies] :
        \A i, j \in DOMAIN p : p[i] = p[j] => i = j}

\* what the strategies of the search of out found, had they run in another
\* order: one list for each order
FoundInAnyOrder ==
    {Flatten([i \in DOMAIN p |-> out.strategy_results[p[i]]]) : p \in StrategyOrders}

\* the ranked results of the search of out from the list found_files
RankedFrom(found_files) ==
    IF out.op = "smart_file_search"
    THEN rank_search_results(RemoveDuplicates(found_files, {}), out.query)
    ELSE FirstN(api_rank_search_results(
                    RemoveDuplicatesByStr(found_files, {}), out.query), ResultLimit)

C22_StrategyOrderIrrelevant ==
    IsSearch => \A found_files \in FoundInAnyOrder : RankedFrom(found_files) = out.ranked

\* C22, amended: in whatever order the strategies run, the ranked results
\* have the same length and the same score at each position, and, unless
\* the web engine cut the list at its limit, hold the same files with the
\* same scores; the order among files of equal score, and with it which of
\* them survive the cut, follows the order in which the strategies ran, and
\* in the order of the code (filename, content, type, date, size) the
\* result is the one returned.
C22_StrategyOrderKeepsFilesAndScores ==
    IsSearch =>
        /\ RankedFrom(Flatten(out.strategy_results)) = out.ranked
        /\ \A found_files \in FoundInAnyOrder :
              \E ranked \in {RankedFrom(found_files)} :
                  /\ Len(ranked) = Len(out.ranked)
                  /\ (out.op = "smart_file_search" \/ Len(ranked) < ResultLimit)
                        => Range(ranked) = Range(out.ranked)
                  /\ \A i \in 1..Len(ranked) :
                        ScoreEQ(ranked[i].score, out.ranked[i].score)

\* two strategies found different files, and another order of the
\* strategies ranks two files of equal score the other way round
C22_Witness ==
    /\ IsSearch
    /\ \E i, j \in 1..5 :
          /\ out.strategy_results[i] # <<>>
          /\ out.strategy_results[j] # <<>>
          /\ Range(out.strategy_results[i]) # Range(out.strategy_results[j])
    /\ \E found_files \in FoundInAnyOrder :
          \E i \in 1..(Len(out.ranked) - 1) :
              /\ Len(RankedFrom(found_files)) = Len(out.ranked)
              /\ RankedFrom(found_files)[i] = out.ranked[i + 1]
              /\ RankedFrom(found_files)[i + 1] = out.ranked[i]
              /\ ScoreEQ(out.ranked[i].score, out.ranked[i + 1].score)


(***************************************************************************)
(* C23: the scanner has a suspension point after every file entry it      *)
(* yields, so a cancellation or deadline can stop a scan between any two   *)
(* files; a scan cancelled at such a point leaves the engine's state       *)
(* (preference table, later searches) unaffected and the results           *)
(* accumulated so far form a valid partial result.                         *)
(***************************************************************************)
IsPrefixSeq(s, t) == Len(s) <= Len(t) /\ SubSeq(t, 1, Len(s)) = s

FileEntries(items) == Cardinality({i \in 1..Len(items) : is_file(items[i])})

\* the strategies before strategy k that walk the directories
Walked(k, query) == Cardinality({j \in 1..(k - 1) : Scans(j, query)})

\* the file entries a coroutine has been handed so far: every walk hands
\* out the same entries
FilesHanded(c) ==
    CASE c.state = "suspended" ->
            CHOOSE n \in { Walked(c.strategy, c.query) * FileEntries(items)
                             + FileEntries(SubSeq(items, 1, c.scanned)) :
                           items \in {Scan(c.search_dirs)} } : TRUE
      [] c.state = "done" ->
            Walked(6, c.query) * FileEntries(Scan(c.search_dirs))
      [] OTHER -> 0

\* what the whole search finds, strategy after strategy
AllFound(c) == Flatten(RunStrategies(c.query, c.search_dirs))

\* a suspended scan stands just behind a file entry, and what it has
\* accumulated is the beginning of what the whole search finds
PartialResultValid ==
    \A t \in DOMAIN tasks :
        tasks[t].state = "suspended" =>
            LET c == tasks[t]
            IN  /\ \E items \in {ScanOf(c.strategy, c.query, c.search_dirs)} :
                      /\ c.scanned \in 1..Len(items)
                      /\ is_file(items[c.scanned])
                /\ IsPrefixSeq(c.found_files \o c.results, AllFound(c))

\* task t ran in this step
Ran(t) ==
    /\ tasks'[t] # tasks[t]
    /\ tasks'[t].state \in {"suspended", "done"}

\* between two suspensions exactly one file entry is handed out, and none
\* between the last suspension and the return
OneFilePerStep ==
    \A t \in DOMAIN tasks :
        Ran(t) =>
            LET before == IF tasks[t].state = "suspended"
                          THEN FilesHanded(tasks[t]) ELSE 0
            IN  FilesHanded(tasks'[t])
                  = before + (IF tasks'[t].state = "suspended" THEN 1 ELSE 0)

\* a cancellation changes nothing but the cancelled task
CancellationFrame ==
    \A t \in DOMAIN tasks :
        (tasks[t].state = "suspended" /\ tasks'[t].state = "cancelled") =>
            /\ UNCHANGED <<engine, fs, dirs, file_memory, memory_file, out>>
            /\ \A u \in DOMAIN tasks \ {t} : tasks'[u] = tasks[u]

C23_SuspensionAfterEveryFile ==
    /\ []PartialResultValid
    /\ [][OneFilePerStep /\ CancellationFrame]_vars

\* one scan was cancelled, another stands between two files with a
\* result accumulated and files left to scan
C23_Witness ==
    \E t, u \in DOMAIN tasks :
        /\ tasks[t].state = "cancelled"
        /\ tasks[u].state = "suspended"
        /\ tasks[u].results # <<>>
        /\ tasks[u].found_files \o tasks[u].results # AllFound(tasks[u])


(***************************************************************************)
(* C24: executing a move never overwrites an existing file in the target  *)
(* directory: when the target name is taken, the file is moved to          *)
(* stem_k.suffix for the smallest k >= 1 whose name is free, the rename    *)
(* loop terminates, and after execution both the pre-existing target file  *)
(* and the moved file exist with their original contents.                  *)
(***************************************************************************)
IsOrganizeStep == out'.op = "auto_organize_files" /\ out'.organized_count >= 0

\* the k-th name the conflict loop tries for a file
RenameCandidate(target_dir, file_name, k) ==
    IF k = 0 THEN target_dir \o <<file_name>>
    ELSE target_dir \o <<Stem(file_name) \o "_" \o ToString(k) \o Suffix(file_name)>>

MoveNeverOverwrites ==
    IsOrganizeStep =>
        LET moves == out'.moves
            \* the path is taken when move i is made
            TakenAt(i, p) == \/ p \in dirs
                             \/ IsFileIn(fs, p)
                             \/ \E j \in 1..(i - 1) : moves[j].to = p
        IN  /\ \A i \in 1..Len(moves) :
                  /\ \E k \in 0..Cardinality(fs) :
                        /\ moves[i].to = RenameCandidate(Parent(moves[i].to),
                                                         Name(moves[i].file), k)
                        /\ \A j \in 0..(k - 1) :
                              TakenAt(i, RenameCandidate(Parent(moves[i].to),
                                                         Name(moves[i].file), j))
                  /\ ~TakenAt(i, moves[i].to)
                  /\ \E f \in fs, g \in fs' :
                        /\ f.path = Canonical(moves[i].file)
                        /\ g.path = moves[i].to
                        /\ g.size = f.size /\ g.content = f.content
                        /\ g.days_old = f.days_old
            /\ \A f \in fs :
                  (\A i \in 1..Len(moves) : Canonical(moves[i].file) # f.path) => f \in fs'
            /\ Cardinality(fs') = Cardinality(fs)
            /\ \A f, g \in fs' : f.path = g.path => f = g

C24_MoveNeverOverwrites == [][MoveNeverOverwrites]_vars

\* a.jpg and a_1.jpg were taken: the file was moved to a_2.jpg and all
\* three files are there
C24_Witness ==
    /\ out.op = "auto_organize_files"
    /\ \E i \in 1..Len(out.moves) :
          /\ Name(out.moves[i].file) = "a.jpg"
          /\ Name(out.moves[i].to) = "a_2.jpg"
          /\ is_file(Parent(out.moves[i].to) \o <<"a.jpg">>)
          /\ is_file(Parent(out.moves[i].to) \o <<"a_1.jpg">>)
          /\ is_file(out.moves[i].to)
          /\ stat(out.moves[i].to).size = 10 * MiB


(***************************************************************************)
(* C25: a reader of the preference table (ranker, planner, or a process   *)
(* loading the persisted table) never observes a half-updated category     *)
(* record while a learning pass is updating or saving the table: for each  *)
(* category it sees either the complete previous record or the complete    *)
(* new record, and never loses records that were stored before.            *)
(***************************************************************************)
IsTableRead == out.op \in {"rank_search_results", "load_file_memory"}

C25_ReadersSeeWholeRecords ==
    IsTableRead =>
        /\ \A c \in DOMAIN out.res :
              \/ c \in DOMAIN out.before /\ out.res[c] = out.before[c]
              \/ c \in DOMAIN out.after /\ out.res[c] = out.after[c]
        /\ DOMAIN out.before \subseteq DOMAIN out.res


(***************************************************************************)
(* C26: the score of a ranked file is the sum of: 10.0 when its lowercase  *)
(* name equals the query, else 5.0 when the name contains the query; 2.0   *)
(* for each word of the query that occurs in the name, on top of the       *)
(* former; 1.0 when it is less than 7 days old, otherwise 0.5 when it is   *)
(* less than 30 days old, never both; and the confidence of the preference *)
(* when the location bonus applies.  Whole and half points are counted in  *)
(* halves, the confidence is the fraction.                                 *)
(***************************************************************************)
NameHalves(name, query) ==
    IF name = query THEN 20 ELSE IF Contains(name, query) THEN 10 ELSE 0

WordHalves(name, query) ==
    4 * Cardinality({w \in DOMAIN Split(query) : Contains(name, Split(query)[w])})

AgeHalves(days_old) ==
    IF days_old >= 30 THEN 0 ELSE IF days_old >= 7 THEN 1 ELSE 2

C26_ScoreIsAdditiveFormula ==
    IsSearch =>
        \A i \in 1..Len(out.ranked) :
            LET file == out.ranked[i].file
                score == out.ranked[i].score
            IN  /\ score.half = NameHalves(RankedName(i), out.query)
                                  + WordHalves(RankedName(i), out.query)
                                  + AgeHalves(stat(file).days_old)
                /\ IF HasLocationBonus(file)
                   THEN score.num * Prefs[categorize_file(file)].confidence.den
                           = Prefs[categorize_file(file)].confidence.num * score.den
                   ELSE score.num = 0

\* the query "report.pdf": report.pdf, 100 days old, scores 10 + 2, and
\* Report.pdf.bak, one day old, scores 5 + 2 + 1
C26_Witness ==
    /\ IsSearch
    /\ \E i, j \in 1..Len(out.ranked) :
          /\ RankedName(i) = out.query
          /\ out.ranked[i].score.half = 24
          /\ RankedName(j) # out.query
          /\ stat(out.ranked[j].file).days_old < 7
          /\ out.ranked[j].score.half = 16


(***************************************************************************)
(* C27: the merge is applied once, to the outputs of all five strategies,  *)
(* and the merged list holds every file that a strategy returned exactly   *)
(* once, at the position of its first occurrence in the concatenation of   *)
(* the outputs of the filename, content, type, date and size strategies.   *)
(***************************************************************************)
Concatenation == Flatten(out.strategy_results)

\* the first position of the file in the sequence of paths
FirstOccurrence(paths, file) ==
    CHOOSE i \in 1..Len(paths) :
        /\ Canonical(paths[i]) = file
        /\ \A j \in 1..(i - 1) : Canonical(paths[j]) # file

C27_MergeOnceFirstOccurrence ==
    IsSearch =>
        /\ Len(out.strategy_results) = 5
        /\ \A i \in 1..Len(Concatenation) :
              Cardinality({k \in 1..Len(out.unique_files) :
                              Canonical(out.unique_files[k]) = Canonical(Concatenation[i])}) = 1
        /\ \A k \in 1..Len(out.unique_files) :
              \E i \in 1..Len(Concatenation) : Concatenation[i] = out.unique_files[k]
        /\ \A k, l \in 1..Len(out.unique_files) :
              k < l => FirstOccurrence(Concatenation, Canonical(out.unique_files[k]))
                         < FirstOccurrence(Concatenation, Canonical(out.unique_files[l]))


(***************************************************************************)
(* C28: a file is in the ranked results of a search if and only if a       *)
(* strategy returned it and its score is positive.  So every file that the *)
(* filename strategy returned is in the results with a score of at least   *)
(* 5.0, every file that the recent branch of the date strategy returned is *)
(* in the results with a score of at least 1.0, and a file that only the   *)
(* type, size, old-date or content strategy returned, whose name holds     *)
(* neither the query nor a word of it, that is 30 days old or older and    *)
(* has no preference bonus, is not in the results.                         *)
(***************************************************************************)
ReturnedPaths == Range(Concatenation)

RankedFiles == {out.ranked[i].file : i \in 1..Len(out.ranked)}

\* the whole and half points of the path, in halves
HalvesOf(path) ==
    NameHalves(Lower(Name(path)), out.query)
      + WordHalves(Lower(Name(path)), out.query)
      + AgeHalves(stat(path).days_old)

\* the score of the path is positive
Qualifies(path) ==
    \/ HalvesOf(path) > 0
    \/ HasLocationBonus(path) /\ Prefs[categorize_file(path)].confidence.num > 0

RecentBranch == AnyIn({"today", "recent", "new", "latest"}, out.query)

RankedWithAtLeast(path, halves) ==
    \E i \in 1..Len(out.ranked) :
        /\ out.ranked[i].file = path
        /\ Scaled(out.ranked[i].score, out.ranked[i].score.den)
              >= halves * out.ranked[i].score.den

C28_RankedIffReturnedAndPositive ==
    IsSearch =>
        /\ RankedFiles = {path \in ReturnedPaths : Qualifies(path)}
        /\ \A path \in Range(out.strategy_results[1]) : RankedWithAtLeast(path, 10)
        /\ RecentBranch =>
              \A path \in Range(out.strategy_results[4]) : RankedWithAtLeast(path, 2)
        /\ \A path \in ReturnedPaths :
              (HalvesOf(path) = 0 /\ ~HasLocationBonus(path)) => path \notin RankedFiles

\* C28 as the engines have it: the command-line engine returns every file
\* that a strategy returned and that scores more than nothing; the web
\* engine returns them all when they are at most 20 and otherwise 20 of
\* them, none scoring less than one it leaves out.  A file of the filename
\* strategy that is in the results scores at least 5.0, one of the recent
\* branch at least 1.0.
C28_RankedIffReturnedPositiveWithinLimit ==
    IsSearch =>
        LET qualifying == {path \in ReturnedPaths : Qualifies(path)}
        IN  /\ RankedFiles \subseteq qualifying
            /\ out.op = "smart_file_search" => RankedFiles = qualifying
            /\ out.op = "smart_search" =>
                  /\ Cardinality(RankedFiles)
                        = IF Cardinality(qualifying) < ResultLimit
                          THEN Cardinality(qualifying) ELSE ResultLimit
                  /\ \A left_out \in qualifying \ RankedFiles, kept \in RankedFiles :
                        HalvesOf(kept) >= HalvesOf(left_out)
            /\ \A path \in Range(out.strategy_results[1]) \cap RankedFiles :
                  RankedWithAtLeast(path, 10)
            /\ RecentBranch =>
                  \A path \in Range(out.strategy_results[4]) \cap RankedFiles :
                      RankedWithAtLeast(path, 2)
            /\ out.op = "smart_file_search" \/ Cardinality(qualifying) <= ResultLimit =>
                  /\ Range(out.strategy_results[1]) \subseteq RankedFiles
                  /\ RecentBranch => Range(out.strategy_results[4]) \subseteq RankedFiles

\* the query "large": large.txt comes from the filename strategy and is
\* ranked, movie.mp4 comes from the size strategy alone, is 60 days old,
\* scores nothing and is left out
C28_Witness ==
    /\ IsSearch
    /\ \E kept \in Range(out.strategy_results[1]) \cap RankedFiles :
       \E dropped \in Range(out.strategy_results[5]) \ RankedFiles :
          /\ dropped \notin Range(out.strategy_results[1])
          /\ HalvesOf(dropped) = 0
          /\ ~Qualifies(dropped)


(***************************************************************************)
(* C29: the web engine's auto_organize leaves the filesystem as it is for  *)
(* both values of dry_run: called with dry_run false it returns what the   *)
(* call with dry_run true returns on the same filesystem, but for the      *)
(* echoed flag, and every file of the plan is still where it was.          *)
(***************************************************************************)
\* what auto_organize(path, dry_run = true) returns on the current filesystem
DryRunResult(path) ==
    LET target_path == IF path # <<>> THEN PathOf(path) ELSE Home \o <<"Downloads">>
    IN  IF ~exists(target_path)
        THEN [op |-> "auto_organize", path |-> path, dry_run |-> TRUE,
              error |-> "ValueError"]
        ELSE [op |-> "auto_organize", path |-> path, dry_run |-> TRUE,
              error |-> "",
              files_analyzed |-> Len(FilesToOrganize(target_path)),
              organization_plan |-> PlanEntries(FilesToOrganize(target_path))]

\* the directory a call organizes
OrganizedDirectory(path) ==
    IF path # <<>> THEN PathOf(path) ELSE Home \o <<"Downloads">>

\* the file of the plan entry is in the directory that was organized
StillInPlace(files, directory, entry) ==
    \E f \in files : f.path = Canonical(directory \o <<entry.file>>)

ApiOrganizeFrame ==
    out'.op = "auto_organize" =>
        /\ fs' = fs /\ dirs' = dirs
        /\ [out' EXCEPT !.dry_run = TRUE] = DryRunResult(out'.path)
        /\ out'.error = "" =>
              \A i \in 1..Len(out'.organization_plan) :
                  StillInPlace(fs', OrganizedDirectory(out'.path),
                               out'.organization_plan[i])

RunAlone(query, search_dirs) ==
    FirstN(api_rank_search_results(
               RemoveDuplicatesByStr(Flatten(RunStrategies(query, search_dirs)), {}),
               query),
           ResultLimit)

C30_ConcurrentSearchesDoNotInterfere ==
    \A t \in DOMAIN tasks :
        tasks[t].state = "done" =>
            tasks[t].ranked = RunAlone(tasks[t].query, tasks[t].search_dirs)

\* a call returned results while another call, for another query, was
\* suspended in a scan
C30_Witness ==
    \E t, u \in DOMAIN tasks :
        /\ tasks[t].state = "done" /\ tasks[t].concurrent
        /\ tasks[t].ranked # <<>>
        /\ tasks[u].state = "suspended"
        /\ tasks[u].query # tasks[t].query
        /\ tasks[u].scanned > 0


====
